---- MODULE Spec2Model ----
(***************************************************************************)
(* Token-at-rest encryption and master-key rotation of ProxmoxMCP.         *)
(*                                                                         *)
(*   utils/encryption.py       TokenEncryption (key resolution, cipher     *)
(*                             derivation, encrypt_token, decrypt_token)   *)
(*   config/loader.py          _decrypt_config_tokens                      *)
(*   utils/encrypt_config.py   create_backup, verify_config_decryption,    *)
(*                             rotate_master_key, rotate_master_key_all    *)
(*                                                                         *)
(* Strings are sequences of symbols.  A symbol is a single character or a  *)
(* chunk of base64url text standing for the bytes it encodes (the base64   *)
(* alphabet has no ':', so a chunk never contains the separator).          *)
(* Cryptography is symbolic: PBKDF2 is injective in (key bytes, salt), a   *)
(* Fernet token opens only under the derived key that sealed it.           *)
(***************************************************************************)
EXTENDS Integers, Sequences, FiniteSets, TLC

\* ------------------------------------------------------------------ bounds
MaxKey  == 2    \* distinct 32-byte random master keys
MaxSalt == 2    \* distinct 16-byte values os.urandom(16) can return
MaxIv   == 1    \* distinct (iv, timestamp) pairs Fernet.encrypt can draw
MaxLen  == 2    \* length of the free part of an input string

\* ------------------------------------------------------------------ bytes
\* A byte string: tag says what it is, the other fields identify it.
\*   rand   : id-th value of os.urandom (n = its length, 16 or 32)
\*   static : b"proxmox_mcp_salt"
\*   utf8   : str.encode() of txt
\*   raw    : what base64 decoding of the plain characters txt gives
\*   fernet : Fernet token sealed under derived key dk, payload txt, nonce id
Bytes(tag, n, id, txt, dk) == [tag |-> tag, n |-> n, id |-> id, txt |-> txt, dk |-> dk]

Rand(n, i) == Bytes("rand", n, i, <<>>, <<>>)

StaticSalt == Bytes("static", 16, 0, <<>>, <<>>)

StrEncode(s) == Bytes("utf8", 0, 0, s, <<>>)

\* ---------------------------------------------------------------- strings
Ch(c) == [kind |-> "ch", c |-> c, bytes |-> <<>>]

B64Chunk(b) == [kind |-> "b64", c |-> "", bytes |-> <<b>>]

Colon == Ch(":")

EncPrefix == <<Ch("e"), Ch("n"), Ch("c"), Colon>>

\* str.startswith("enc:")
StartsWithEnc(s) == Len(s) >= 4 /\ SubSeq(s, 1, 4) = EncPrefix

\* s[4:]
DropPrefix(s) == SubSeq(s, 5, Len(s))

\* str.split(":") : always at least one part, "" gives [""]
RECURSIVE Split(_)
Split(s) ==
    IF s = <<>> THEN << <<>> >>
    ELSE LET rest == Split(Tail(s))
         IN  IF Head(s) = Colon
             THEN << <<>> >> \o rest
             ELSE << <<Head(s)>> \o rest[1] >> \o Tail(rest)

\* results of operations that may raise: val is a one-element sequence
Ok(v) == [ok |-> TRUE, val |-> <<v>>, err |-> <<>>]

Err(msg) == [ok |-> FALSE, val |-> <<>>, err |-> msg]

\* ----------------------------------------------------------------- base64
\* base64.urlsafe_b64encode(b).decode()
B64Encode(b) == <<B64Chunk(b)>>

\* number of base64-alphabet characters of a plain-character string
\* (':' is outside the alphabet and is discarded by the decoder)
RECURSIVE DataChars(_)
DataChars(s) ==
    IF s = <<>> THEN <<>>
    ELSE IF Head(s) = Colon THEN DataChars(Tail(s))
         ELSE <<Head(s)>> \o DataChars(Tail(s))

\* base64.urlsafe_b64decode(text.encode()): a chunk gives back its bytes;
\* plain characters decode when their count is a multiple of 4 and raise
\* binascii.Error otherwise.  A chunk glued to other symbols does not occur
\* in the inputs of this model and is treated as undecodable.
B64Decode(text) ==
    IF Len(text) = 1 /\ text[1].kind = "b64" THEN Ok(text[1].bytes[1])
    ELSE IF \E i \in 1..Len(text) : text[i].kind = "b64" THEN Err(<<"Incorrect padding">>)
    ELSE LET d == DataChars(text)
         IN  IF Len(d) % 4 = 0 THEN Ok(Bytes("raw", 0, 0, d, <<>>))
             ELSE IF Len(d) % 4 = 1
                  THEN Err(<<"Invalid base64-encoded string: number of data characters cannot be 1 more than a multiple of 4">>)
                  ELSE Err(<<"Incorrect padding">>)

\* ----------------------------------------------------------------- cipher
\* PBKDF2HMAC(SHA256, 32, salt, 100000).derive(key_bytes), as Fernet key
DeriveKey(key_bytes, salt) == <<key_bytes, salt>>

\* Fernet(dk).encrypt(data) with the nonce the library drew
FernetEncrypt(dk, data, iv) == Bytes("fernet", 0, iv, data.txt, dk)

\* variant of FernetDecrypt: the key that sealed the token is not checked
FernetDecryptAnyKey(dk, b) ==
    IF b.tag = "fernet" THEN Ok(StrEncode(b.txt))
    ELSE Err(<<"">>)

\* Fernet(dk).decrypt(b): InvalidToken (whose str() is empty) unless b is a
\* token sealed under dk
FernetDecrypt(dk, b) ==
    IF b.tag = "fernet" /\ b.dk = dk THEN Ok(StrEncode(b.txt))
    ELSE Err(<<"">>)

\* bytes.decode()
BytesDecode(b) == b.txt

\* TokenEncryption._create_cipher(salt): the derived key, or ValueError
create_cipher(master_key, salt) ==
    LET kb == B64Decode(master_key)
    IN  IF kb.ok THEN Ok(DeriveKey(kb.val[1], salt))
        ELSE Err(<<"Invalid master key: ">> \o kb.err)

\* ------------------------------------------------------------- key material
\* Optional[str]: None is the empty sequence, a string s is <<s>>
None == <<>>

Some(s) == <<s>>

EmptyStr == <<>>

\* Python truthiness of an Optional[str]: None and "" are falsy
Truthy(opt) == opt # None /\ opt[1] # EmptyStr

\* TokenEncryption.generate_master_key() when os.urandom(32) returns value i
generate_master_key(i) == B64Encode(Rand(32, i))

\* a string that is not decodable base64 (one data character)
BadKey == <<Ch("x")>>

\* TokenEncryption._get_or_generate_master_key(): environment value, else a
\* key generated for the session (gen is what os.urandom(32) returned)
get_or_generate_master_key(envv, gen) ==
    IF Truthy(envv) THEN envv[1] ELSE generate_master_key(gen)

\* one print(...) call: the literal text and the value formatted into it
Out(text, val) == [text |-> text, val |-> val, err |-> <<>>]

\* print(f"...{e}"): the literal text and the message of the exception
OutErr(text, err) == [text |-> text, val |-> <<>>, err |-> err]

\* variant of get_or_generate_output: the generated key is shown with the
\* export instruction
get_or_generate_output_with_key(envv, gen) ==
    IF Truthy(envv) THEN {}
    ELSE {Out("WARNING: No master key found in environment.", None),
          Out("A temporary key has been generated for this session only.", None),
          Out("To generate and set a permanent master key:", None),
          Out("1. Run: python -m proxmox_mcp.utils.encrypt_config --generate-key", None),
          Out("2. Copy the key to your environment: export PROXMOX_MCP_MASTER_KEY=", Some(generate_master_key(gen))),
          Out("3. Any tokens encrypted with the temporary key will need re-encryption.", None),
          Out("WARNING: Terminal history may expose keys - use the utility for security!", None)}

\* what _get_or_generate_master_key() prints: nothing when the environment
\* has a key, the warning and the guidance when it generates one
get_or_generate_output(envv, gen) ==
    IF Truthy(envv) THEN {}
    ELSE {Out("WARNING: No master key found in environment.", None),
          Out("A temporary key has been generated for this session only.", None),
          Out("To generate and set a permanent master key:", None),
          Out("1. Run: python -m proxmox_mcp.utils.encrypt_config --generate-key", None),
          Out("2. Copy the key to your environment: export PROXMOX_MCP_MASTER_KEY=<key>", None),
          Out("3. Any tokens encrypted with the temporary key will need re-encryption.", None),
          Out("WARNING: Terminal history may expose keys - use the utility for security!", None)}

\* what TokenEncryption.__init__(master_key) prints: "master_key or ..." calls
\* _get_or_generate_master_key only when master_key is None or empty
init_output(master_key, envv, gen) ==
    IF Truthy(master_key) THEN {} ELSE get_or_generate_output(envv, gen)

\* variant of TokenEncryption: the environment value is preferred to the
\* master_key argument
TokenEncryptionEnvFirst(master_key, envv, gen) ==
    LET k == IF Truthy(envv) THEN envv[1]
             ELSE IF Truthy(master_key) THEN master_key[1]
             ELSE generate_master_key(gen)
        c == create_cipher(k, StaticSalt)
    IN  IF c.ok THEN Ok(k) ELSE Err(c.err)

\* TokenEncryption.__init__(master_key): the instance is identified by its
\* resolved master key; building the default cipher raises on a bad key
TokenEncryption(master_key, envv, gen) ==
    LET k == IF Truthy(master_key) THEN master_key[1]
             ELSE get_or_generate_master_key(envv, gen)
        c == create_cipher(k, StaticSalt)
    IN  IF c.ok THEN Ok(k) ELSE Err(c.err)

\* ------------------------------------------------------------ token cipher
\* variant of encrypt_token: the token is sealed by the default cipher of the
\* instance, the drawn salt is written into it all the same
encrypt_token_default_cipher(k, token, salt, iv) ==
    LET c == create_cipher(k, StaticSalt)
    IN  IF ~c.ok THEN Err(<<"Failed to encrypt token: ">> \o c.err)
        ELSE Ok(EncPrefix \o B64Encode(salt) \o <<Colon>>
                  \o B64Encode(FernetEncrypt(c.val[1], StrEncode(token), iv)))

\* TokenEncryption.encrypt_token(token) on the instance with master key k,
\* when os.urandom(16) returns salt and Fernet draws nonce iv
encrypt_token(k, token, salt, iv) ==
    LET c == create_cipher(k, salt)
    IN  IF ~c.ok THEN Err(<<"Failed to encrypt token: ">> \o c.err)
        ELSE Ok(EncPrefix \o B64Encode(salt) \o <<Colon>>
                  \o B64Encode(FernetEncrypt(c.val[1], StrEncode(token), iv)))

\* variant of DecryptNewFormat: the stored salt is ignored and the default
\* (static-salt) cipher of the instance is used
DecryptNewFormatStaticSalt(k, parts) ==
    LET data == B64Decode(parts[2])
    IN  IF ~data.ok THEN Err(data.err)
        ELSE LET c == create_cipher(k, StaticSalt)
             IN  IF ~c.ok THEN Err(c.err)
                 ELSE LET d == FernetDecrypt(c.val[1], data.val[1])
                      IN  IF d.ok THEN Ok(BytesDecode(d.val[1])) ELSE Err(d.err)

\* decrypt_token, new format: parts = [salt_b64, encrypted_b64]
DecryptNewFormat(k, parts) ==
    LET salt == B64Decode(parts[1])
        data == B64Decode(parts[2])
    IN  IF ~salt.ok THEN Err(salt.err)
        ELSE IF ~data.ok THEN Err(data.err)
        ELSE LET c == create_cipher(k, salt.val[1])
             IN  IF ~c.ok THEN Err(c.err)
                 ELSE LET d == FernetDecrypt(c.val[1], data.val[1])
                      IN  IF d.ok THEN Ok(BytesDecode(d.val[1])) ELSE Err(d.err)

\* variant of DecryptOldFormat: the cipher is derived with a salt of the
\* per-token kind
DecryptOldFormatRandSalt(k, parts) ==
    LET data == B64Decode(parts[1])
    IN  IF ~data.ok THEN Err(data.err)
        ELSE LET d == FernetDecrypt(create_cipher(k, Rand(16, 1)).val[1], data.val[1])
             IN  IF d.ok THEN Ok(BytesDecode(d.val[1])) ELSE Err(d.err)

\* decrypt_token, old format: parts = [encrypted_b64], static-salt cipher
DecryptOldFormat(k, parts) ==
    LET data == B64Decode(parts[1])
    IN  IF ~data.ok THEN Err(data.err)
        ELSE LET d == FernetDecrypt(create_cipher(k, StaticSalt).val[1], data.val[1])
             IN  IF d.ok THEN Ok(BytesDecode(d.val[1])) ELSE Err(d.err)

\* the class of the exception a message of the cipher layer belongs to, by
\* the statement that raised it
ExceptionClass(err) ==
    IF err = <<>> THEN "none"
    ELSE IF err[1] \in {"Failed to decrypt token: ", "Failed to encrypt token: ",
                        "Invalid master key: ", "Invalid encrypted token format"}
         THEN "ValueError"
    ELSE IF err[1] = "" THEN "InvalidToken"
    ELSE IF err[1] \in {"Incorrect padding",
                        "Invalid base64-encoded string: number of data characters cannot be 1 more than a multiple of 4"}
         THEN "binascii.Error"
    ELSE "Exception"

\* variant of DecryptParts: "if len(token_parts) >= 2", the first two parts
\* being taken as salt and data
DecryptPartsTwoOrMore(k, parts) ==
    IF Len(parts) >= 2 THEN DecryptNewFormat(k, parts)
    ELSE DecryptOldFormat(k, parts)

\* decrypt_token, the branch on len(token_parts)
DecryptParts(k, parts) ==
    IF Len(parts) = 2 THEN DecryptNewFormat(k, parts)
    ELSE IF Len(parts) = 1 THEN DecryptOldFormat(k, parts)
    ELSE Err(<<"Invalid encrypted token format">>)

\* variant of decrypt_token: the prefix test is startswith("enc")
decrypt_token_enc3(k, encrypted_token) ==
    IF ~(Len(encrypted_token) >= 3 /\ SubSeq(encrypted_token, 1, 3) = SubSeq(EncPrefix, 1, 3))
    THEN Ok(encrypted_token)
    ELSE LET r == DecryptParts(k, Split(DropPrefix(encrypted_token)))
         IN  IF r.ok THEN r ELSE Err(<<"Failed to decrypt token: ">> \o r.err)

\* TokenEncryption.decrypt_token(encrypted_token) on the instance with key k
decrypt_token(k, encrypted_token) ==
    IF ~StartsWithEnc(encrypted_token) THEN Ok(encrypted_token)
    ELSE LET r == DecryptParts(k, Split(DropPrefix(encrypted_token)))
         IN  IF r.ok THEN r ELSE Err(<<"Failed to decrypt token: ">> \o r.err)

\* TokenEncryption.is_encrypted(token)
is_encrypted(token) == StartsWithEnc(token)

\* variant of migrate_plain_token: the token is encrypted whatever its prefix
migrate_plain_token_always(k, plain_token, salt, iv) ==
    encrypt_token(k, plain_token, salt, iv)

\* TokenEncryption.migrate_plain_token(plain_token) on the instance with key
\* k; salt and iv are what encrypt_token draws when it is called
migrate_plain_token(k, plain_token, salt, iv) ==
    IF is_encrypted(plain_token) THEN Ok(plain_token)
    ELSE encrypt_token(k, plain_token, salt, iv)

\* a legacy token as older releases wrote it: static salt, one part
LegacyToken(k, token, iv) ==
    EncPrefix \o B64Encode(FernetEncrypt(create_cipher(k, StaticSalt).val[1], StrEncode(token), iv))

\* encrypt_sensitive_value(value, encryptor): encryptor is None or the
\* instance to use; without one a default TokenEncryption() is built
encrypt_sensitive_value(value, encryptor, envv, gen, salt, iv) ==
    LET e == IF encryptor = None THEN TokenEncryption(None, envv, gen) ELSE Ok(encryptor[1])
    IN  IF e.ok THEN encrypt_token(e.val[1], value, salt, iv) ELSE e

\* decrypt_sensitive_value(encrypted_value, encryptor)
decrypt_sensitive_value(encrypted_value, encryptor, envv, gen) ==
    LET e == IF encryptor = None THEN TokenEncryption(None, envv, gen) ELSE Ok(encryptor[1])
    IN  IF e.ok THEN decrypt_token(e.val[1], encrypted_value) ELSE e

\* ------------------------------------------------------ configuration document
\* JSON values of the fields the code looks at or carries along
JStr(s) == [t |-> "str", s |-> s, n |-> 0]

JNum(n) == [t |-> "num", s |-> <<>>, n |-> n]

JNull == [t |-> "null", s |-> <<>>, n |-> 0]

\* the "auth" object: a "user" entry and an optional "token_value" entry
AuthObj(user, tok) == [user |-> user, token_value |-> tok]

\* the document: an optional "auth" object and one unrelated top-level entry
Doc(auth, name) == [auth |-> auth, name |-> name]

\* "auth" in config_data and "token_value" in config_data["auth"]
HasTokenValue(doc) == doc.auth # None /\ doc.auth[1].token_value # None

TokenValue(doc) == doc.auth[1].token_value[1]

\* variant of HasEncryptedToken: only values with two parts after the prefix
\* count as encrypted
HasEncryptedTokenTwoParts(doc) ==
    /\ HasTokenValue(doc)
    /\ TokenValue(doc).t = "str"
    /\ StartsWithEnc(TokenValue(doc).s)
    /\ Len(Split(DropPrefix(TokenValue(doc).s))) = 2

\* isinstance(token_value, str) and token_value.startswith("enc:")
HasEncryptedToken(doc) ==
    /\ HasTokenValue(doc)
    /\ TokenValue(doc).t = "str"
    /\ StartsWithEnc(TokenValue(doc).s)

\* variant of SetTokenValue: config_data["auth"] = {"token_value": s}
SetTokenValueOnly(doc, s) ==
    [doc EXCEPT !.auth = <<[user |-> JNull, token_value |-> <<JStr(s)>>]>>]

\* config_data["auth"]["token_value"] = s
SetTokenValue(doc, s) ==
    [doc EXCEPT !.auth = <<[doc.auth[1] EXCEPT !.token_value = <<JStr(s)>>]>>]

\* variant of Mentions: needle in str(original_error), without lower()
MentionsCaseSensitive(msg, needle) ==
    \E i \in 1..Len(msg) :
        \/ needle = "decrypt" /\ msg[i] = "Failed to decrypt token: "
        \/ needle = "base64" /\ msg[i] = "Invalid base64-encoded string: number of data characters cannot be 1 more than a multiple of 4"

\* needle in str(original_error).lower(), for the needles the loader looks for
\* and the message fragments the cipher layer produces
Mentions(msg, needle) ==
    \E i \in 1..Len(msg) :
        \/ needle = "decrypt" /\ msg[i] = "Failed to decrypt token: "
        \/ needle = "invalid encrypted token format" /\ msg[i] = "Invalid encrypted token format"
        \/ needle = "invalid master key" /\ msg[i] = "Invalid master key: "
        \/ needle = "base64" /\ msg[i] = "Invalid base64-encoded string: number of data characters cannot be 1 more than a multiple of 4"
        \/ needle = "invalid" /\ msg[i] \in {"Invalid encrypted token format", "Invalid master key: ",
               "Invalid base64-encoded string: number of data characters cannot be 1 more than a multiple of 4"}

\* variant of handle_decryption_error: the key-mismatch message shows the
\* first characters of the value
handle_decryption_error_preview(field_name, encrypted_value, msg) ==
    IF ~StartsWithEnc(encrypted_value)
    THEN Err(<<field_name, "contains invalid encrypted token format">>)
    ELSE IF Mentions(msg, "invalid encrypted token format")
    THEN Err(<<field_name, "Invalid encryption format">>)
    ELSE IF Mentions(msg, "invalid master key") \/ Mentions(msg, "decrypt")
    THEN Err(<<field_name, "Decryption key mismatch",
               IF Len(encrypted_value) > 4 THEN "value: enc:..." ELSE "value: enc:">>)
    ELSE IF Mentions(msg, "base64") \/ Mentions(msg, "invalid")
    THEN Err(<<field_name, "Token data is corrupted">>)
    ELSE Err(<<field_name, "generic">> \o msg)

\* _handle_decryption_error(field_name, encrypted_value, original_error):
\* always raises; the message depends on the field and the category only,
\* except the generic one, which quotes the original error
handle_decryption_error(field_name, encrypted_value, msg) ==
    IF ~StartsWithEnc(encrypted_value)
    THEN Err(<<field_name, "contains invalid encrypted token format">>)
    ELSE IF Mentions(msg, "invalid encrypted token format")
    THEN Err(<<field_name, "Invalid encryption format">>)
    ELSE IF Mentions(msg, "invalid master key") \/ Mentions(msg, "decrypt")
    THEN Err(<<field_name, "Decryption key mismatch">>)
    ELSE IF Mentions(msg, "base64") \/ Mentions(msg, "invalid")
    THEN Err(<<field_name, "Token data is corrupted">>)
    ELSE Err(<<field_name, "generic">> \o msg)

\* variant of decrypt_config_tokens: the handler is given the cause of the
\* cipher layer's exception, without the "Failed to decrypt token: " wrapper
decrypt_config_tokens_unwrapped(doc, envv, gen) ==
    IF HasEncryptedToken(doc)
    THEN LET encryptor == TokenEncryption(None, envv, gen)
             r == IF encryptor.ok
                  THEN DecryptParts(encryptor.val[1], Split(DropPrefix(TokenValue(doc).s)))
                  ELSE encryptor
         IN  IF r.ok THEN Ok(SetTokenValue(doc, r.val[1]))
             ELSE handle_decryption_error("auth.token_value", TokenValue(doc).s, r.err)
    ELSE Ok(doc)

\* _decrypt_config_tokens(config_data) with the environment value envv; gen is
\* the key TokenEncryption() would generate when the environment has none
decrypt_config_tokens(doc, envv, gen) ==
    IF HasEncryptedToken(doc)
    THEN LET encryptor == TokenEncryption(None, envv, gen)
             r == IF encryptor.ok
                  THEN decrypt_token(encryptor.val[1], TokenValue(doc).s)
                  ELSE encryptor
         IN  IF r.ok THEN Ok(SetTokenValue(doc, r.val[1]))
             ELSE handle_decryption_error("auth.token_value", TokenValue(doc).s, r.err)
    ELSE Ok(doc)

\* what _decrypt_config_tokens prints: TokenEncryption() is built only when an
\* encrypted value is found
decrypt_config_output(doc, envv, gen) ==
    IF HasEncryptedToken(doc) THEN init_output(None, envv, gen) ELSE {}

\* variant of encrypt_config_data: every string value is encrypted
encrypt_config_data_all_strings(doc, k, salt, iv) ==
    IF HasTokenValue(doc) /\ TokenValue(doc).t = "str"
    THEN LET t == encrypt_token(k, TokenValue(doc).s, salt, iv)
         IN  IF t.ok THEN Ok(SetTokenValue(doc, t.val[1])) ELSE t
    ELSE Ok(doc)

\* encrypt_config_file, "Encrypt sensitive values": auth.token_value is
\* encrypted when it is a string that is_encrypted does not accept
encrypt_config_data(doc, k, salt, iv) ==
    IF HasTokenValue(doc) /\ TokenValue(doc).t = "str" /\ ~is_encrypted(TokenValue(doc).s)
    THEN LET t == encrypt_token(k, TokenValue(doc).s, salt, iv)
         IN  IF t.ok THEN Ok(SetTokenValue(doc, t.val[1])) ELSE t
    ELSE Ok(doc)

\* ---------------------------------------------------------------- file system
\* A path is the sequence of the segments of its file name.
Config1 == <<"config1", ".json">>

Config2 == <<"config2", ".json">>

ConfigExample == <<"config.example", ".json">>

Paths == {Config1, Config2, ConfigExample}

\* Path.rglob("*.json") matches the name
EndsWithJson(p) == p[Len(p)] = ".json"

\* variant of StartsWithConfigExample: file_path.name.startswith("example")
StartsWithExample(p) == p[1] = "example"

\* file_path.name.startswith("config.example")
StartsWithConfigExample(p) == p[1] = "config.example"

\* file contents: a complete JSON text (document + layout), the empty file
\* left by open(path, "w"), a partially written text, or a text that is not JSON
JsonFile(doc, fmt) == [kind |-> "json", doc |-> <<doc>>, fmt |-> fmt]

EmptyFile == [kind |-> "empty", doc |-> <<>>, fmt |-> ""]

PartialFile == [kind |-> "partial", doc |-> <<>>, fmt |-> ""]

TextFile == [kind |-> "text", doc |-> <<>>, fmt |-> ""]

\* variant of JsonLoad: a text that is not JSON loads as an empty document
JsonLoadLenient(c) == IF c.kind = "json" THEN Ok(c.doc[1]) ELSE Ok(Doc(None, JNull))

\* json.load(f) on a file with content c
JsonLoad(c) == IF c.kind = "json" THEN Ok(c.doc[1]) ELSE Err(<<"JSONDecodeError">>)

\* json.dump(config_data, f, indent=2), once complete
JsonDump2(doc) == JsonFile(doc, "indent2")

\* json.dump(config_data, f, indent=4), once complete
JsonDump4(doc) == JsonFile(doc, "indent4")

\* ~/.proxmox_mcp_key
KeyFile == <<".proxmox_mcp_key">>

\* f"{config_path.rsplit('.', 1)[0]}.encrypted.json"
default_output(p) == SubSeq(p, 1, Len(p) - 1) \o <<".encrypted", ".json">>

\* the paths the generate-key and encrypt commands can touch
CliPaths == Paths \cup {default_output(p) : p \in Paths} \cup {KeyFile}

\* variant of verify_config_decryption: a failed decryption of the token is
\* not reported
verify_config_decryption_lenient(file, old_key, envv) ==
    TokenEncryption(Some(old_key), envv, 1).ok /\ JsonLoad(file).ok

\* verify_config_decryption(config_path, old_key), file = content at the path,
\* envv = the environment value (looked at only when old_key is empty)
verify_config_decryption(file, old_key, envv) ==
    LET old_encryptor == TokenEncryption(Some(old_key), envv, 1)
        config_data == JsonLoad(file)
    IN  IF ~old_encryptor.ok \/ ~config_data.ok THEN FALSE
        ELSE IF HasEncryptedToken(config_data.val[1])
             THEN decrypt_token(old_encryptor.val[1], TokenValue(config_data.val[1]).s).ok
             ELSE TRUE

\* ------------------------------------------------------------------- state
MaxClock == 2   \* clock seconds the model distinguishes
MaxRuns  == 2   \* commands the operator runs one after the other
MaxRotSalt == 1 \* distinct salts os.urandom(16) returns during rotations

VARIABLES
    env,        \* PROXMOX_MCP_MASTER_KEY: None or Some(string)
    files,      \* path -> None or Some(content)
    backups,    \* path -> timestamp -> None or Some(content): <path>.backup.<ts>
    clock,      \* datetime.now(), in seconds
    pc,         \* position of the running command
    cmd,        \* the command and its arguments
    loc,        \* locals of rotate_master_key
    batch,      \* locals of rotate_master_key_all
    runs,       \* commands started so far
    pre,        \* history: files and backups when the current rotate_master_key began
    start,      \* history: the files when the current command began
    written,    \* history: paths the current command opened for writing
    backed,     \* history: paths the current command created a backup file for
    encCall,    \* library session: the last encrypt_token call
    lastCall,   \* library session: the last decrypt call
    migCall,    \* library session: the migrate_plain_token call
    errCall,    \* library session: _handle_decryption_error on two values
    sensCall,   \* library session: encrypt_sensitive_value, then decrypt_sensitive_value
    cli,        \* locals of the generate-key and encrypt commands
    console     \* what the library calls and the running command printed

vars == <<env, files, backups, clock, pc, cmd, loc, batch, runs, pre, start, written, backed,
          encCall, lastCall, migCall, errCall, sensCall, cli, console>>

rotVars == <<files, backups, clock, pc, cmd, loc, batch, runs, pre, start, written, backed>>

libVars == <<encCall, lastCall, migCall, errCall, sensCall, cli, console>>

\* the library session and the locals of the other commands
callVars == <<encCall, lastCall, migCall, errCall, sensCall, cli>>

Keys == {generate_master_key(i) : i \in 1..MaxKey}

Salts == {Rand(16, i) : i \in 1..MaxSalt}

RotSalts == {Rand(16, i) : i \in 1..MaxRotSalt}

\* the tokens of a rotation are told apart by their salts: Fernet.encrypt
\* draws its first (iv, timestamp) pair there
RotIvs == {1}

Ivs == 1..MaxIv

\* what can be in the environment variable
EnvValues == {None, Some(EmptyStr), Some(BadKey)} \cup {Some(k) : k \in Keys}

\* the new_key argument of the rotation commands
NewKeyArgs == {None, Some(EmptyStr), Some(BadKey)} \cup {Some(k) : k \in Keys}

Times == 1..MaxClock

\* the secret each configuration file protects
Secret(p) == IF p = Config1 THEN <<Ch("x")>>
             ELSE IF p = Config2 THEN <<Ch("y")>> ELSE <<Ch("z")>>

\* the unrelated entries of each configuration file
BaseDoc(p, tok) ==
    Doc(Some(AuthObj(JStr(<<Ch("u")>>), tok)), IF p = Config1 THEN JNum(1) ELSE JStr(<<Ch("n")>>))

NoCall == [op |-> "none", key |-> None, inst |-> None, arg |-> <<>>, res |-> Err(<<>>), fromEnc |-> FALSE]

NoEncCall == [done |-> FALSE, key |-> None, inst |-> None, s |-> <<>>, res |-> Err(<<>>)]

NoMigCall == [done |-> FALSE, key |-> None, inst |-> None, s |-> <<>>, res |-> Err(<<>>)]

NoErrCall == [done |-> FALSE, field |-> "", v1 |-> <<>>, v2 |-> <<>>, msg |-> <<>>, r1 |-> Err(<<>>), r2 |-> Err(<<>>)]

NoSensCall == [done |-> FALSE, encryptor |-> None, inst |-> None, s |-> <<>>, res |-> Err(<<>>),
               dec |-> FALSE, dec_encryptor |-> None, dec_inst |-> None, dec_res |-> Err(<<>>)]

NoCli == [key |-> None, config_path |-> <<>>, output_arg |-> None, output_path |-> <<>>,
          src |-> None, inst |-> None, config_data |-> None, failed_at |-> "",
          loaded |-> Err(<<>>), loader_key |-> None]

NoLoc == [path |-> <<>>, new_key |-> None, old_key |-> None, ts |-> 0,
          config_data |-> None, rotated_fields |-> <<>>, ret |-> "", failed_at |-> ""]

NoBatch == [config_files |-> <<>>, i |-> 0, successful_rotations |-> <<>>,
            failed_rotations |-> <<>>, new_key |-> None]

NoCmd == [name |-> "", path |-> <<>>, dir |-> ""]

\* ------------------------------------------------------------ initial states
\* a new-format token as encrypt_token wrote it under key k
StoredToken(p, k) == encrypt_token(k, Secret(p), Rand(16, 1), 1).val[1]

\* a token with three parts after the prefix
ThreePartToken == EncPrefix \o <<Ch("x"), Colon, Ch("x"), Colon, Ch("x")>>

\* the token_value entries a configuration file can start with
TokenEntries(p) ==
    {None, Some(JNum(7)), Some(JStr(Secret(p))), Some(JStr(ThreePartToken)),
     Some(JStr(LegacyToken(generate_master_key(1), Secret(p), 1)))}
    \cup {Some(JStr(StoredToken(p, k))) : k \in Keys}

\* json.dump(indent=2) leaves the layout "indent2"; a file with another
\* layout changes bytes when it is rewritten with the same document
Config1Contents ==
    {None, Some(TextFile), Some(JsonFile(Doc(None, JNum(1)), "compact"))}
    \cup {Some(JsonFile(BaseDoc(Config1, t), "compact")) : t \in TokenEntries(Config1)}
    \cup {Some(JsonFile(BaseDoc(Config1, t), "indent2")) :
             t \in {Some(JStr(Secret(Config1))), Some(JStr(StoredToken(Config1, generate_master_key(1))))}}

Config2Contents ==
    {Some(JsonFile(BaseDoc(Config2, Some(JStr(Secret(Config2)))), "compact")),
     Some(JsonFile(BaseDoc(Config2, Some(JStr(StoredToken(Config2, generate_master_key(1))))), "compact"))}

ConfigExampleContents ==
    {Some(JsonFile(BaseDoc(ConfigExample, Some(JStr(StoredToken(ConfigExample, generate_master_key(1))))), "compact"))}

NoBackups == [p \in Paths |-> [t \in Times |-> None]]

InitLib ==
    /\ encCall = NoEncCall
    /\ lastCall = NoCall
    /\ migCall = NoMigCall
    /\ errCall = NoErrCall
    /\ sensCall = NoSensCall
    /\ cli = NoCli
    /\ console = {}

InitRot ==
    /\ backups = NoBackups
    /\ clock = 1
    /\ pc = "idle"
    /\ cmd = NoCmd
    /\ loc = NoLoc
    /\ batch = NoBatch
    /\ runs = 0
    /\ written = {}
    /\ backed = {}

\* the operator's shell before a rotation command
Init ==
    /\ env \in EnvValues
    /\ files \in {[p \in Paths |-> IF p = Config1 THEN c1 ELSE IF p = Config2 THEN c2 ELSE c3] :
                    c1 \in Config1Contents, c2 \in Config2Contents, c3 \in ConfigExampleContents}
    /\ pre = [files |-> files, backups |-> NoBackups]
    /\ start = files
    /\ InitRot
    /\ InitLib

\* --------------------------------------------------------- process endings
\* sys.exit(1): SystemExit is not an Exception, no handler of this program
\* catches it, the process ends
Exit(stage) ==
    /\ pc' = "exit"
    /\ loc' = [loc EXCEPT !.failed_at = stage]

Running == pc \notin {"idle", "done", "exit", "killed"}

\* print(f"Error during key rotation: {e}") of rotate_master_key
RotationError(err) == OutErr("Error during key rotation: ", err)

\* the lines of the "Next steps" that both rotation commands print
NextSteps(new_key) ==
    {Out("Next steps:", None),
     Out("1. Update your environment with the new master key:", None),
     Out("export PROXMOX_MCP_MASTER_KEY=", new_key),
     Out("4. Update any other systems using the old key", None)}

\* the closing messages of rotate_master_key
RotationReport(rotated_fields, new_key) ==
    {Out("Key rotation completed successfully!", None),
     Out("Configuration: <config_path>", None),
     Out("Backup: <backup_path>", None),
     IF rotated_fields # <<>> THEN Out("Rotated fields: auth.token_value", None)
     ELSE Out("No encrypted fields found to rotate", None),
     Out("2. Test the configuration:", None),
     Out("PROXMOX_MCP_CONFIG=<config_path> python -m proxmox_mcp.server --test", None),
     Out("3. If successful, you can safely delete the backup file", None)}
    \cup NextSteps(new_key)

\* the bulk rotation summary of rotate_master_key_all
BulkSummary(successful_rotations, failed_rotations, new_key) ==
    {Out("Bulk rotation summary:", None), Out("Successful: <n>", None), Out("Failed: <n>", None)}
    \cup (IF successful_rotations # <<>>
          THEN {Out("Rotated files:", None), Out("<rotated_file>", None)} ELSE {})
    \cup (IF failed_rotations # <<>>
          THEN {Out("Failed files:", None)}
               \cup {OutErr("<failed_file>: ", failed_rotations[i][2]) : i \in 1..Len(failed_rotations)}
          ELSE {})
    \cup (IF successful_rotations # <<>>
          THEN NextSteps(new_key)
               \cup {Out("2. Test each rotated configuration", None),
                     Out("3. If successful, delete backup files", None)}
          ELSE {})

\* the process is killed between two steps
Kill ==
    /\ Running
    /\ pc' = "killed"
    /\ UNCHANGED <<env, files, backups, clock, cmd, loc, batch, runs, pre, written, start, backed, libVars>>

\* a second passes.  The clock is read by create_backup only and only the
\* equality of two timestamps of the same path matters, so the seconds that
\* count are those that pass between two commands
Tick ==
    /\ clock < MaxClock
    /\ pc = "idle"
    /\ runs > 0
    /\ clock' = clock + 1
    /\ UNCHANGED <<env, files, backups, pc, cmd, loc, batch, runs, pre, written, start, backed, libVars>>

\* --------------------------------------------------------- rotate_master_key
\* variant of EnvKeyMissing: "if old_key is None"
EnvKeyIsNone(old_key) == old_key = None

\* "if not old_key": the environment has no master key, or an empty one
EnvKeyMissing(old_key) == ~Truthy(old_key)

\* the call rotate_master_key(config_path, new_key) begins
EnterRotate(p, nk, ret) ==
    /\ pc' = "r_exists"
    /\ loc' = [NoLoc EXCEPT !.path = p, !.new_key = nk, !.ret = ret]
    /\ pre' = [files |-> files, backups |-> backups]

\* main(): --rotate-key, or a caller passing new_key
StartRotate ==
    /\ pc = "idle"
    /\ runs < MaxRuns
    /\ \E p \in Paths, nk \in NewKeyArgs :
        /\ cmd' = [NoCmd EXCEPT !.name = "rotate", !.path = p]
        /\ EnterRotate(p, nk, "single")
    /\ runs' = runs + 1
    /\ batch' = NoBatch
    /\ start' = files
    /\ written' = {}
    /\ backed' = {}
    /\ console' = {}
    /\ UNCHANGED <<env, files, backups, clock, callVars>>

\* os.path.exists(config_path)
R_Exists ==
    /\ pc = "r_exists"
    /\ IF files[loc.path] = None
       THEN /\ Exit("exists")
            /\ console' = console \cup {Out("Error: Configuration file not found: <config_path>", None)}
       ELSE pc' = "r_env" /\ loc' = loc /\ console' = console
    /\ UNCHANGED <<env, files, backups, clock, cmd, batch, runs, pre, written, start, backed, callVars>>

\* old_key = os.getenv(...); if not old_key: sys.exit(1)
R_Env ==
    /\ pc = "r_env"
    /\ IF EnvKeyMissing(env)
       THEN /\ Exit("env")
            /\ console' = console \cup
                 {Out("Error: No master key found in environment variable PROXMOX_MCP_MASTER_KEY", None),
                  Out("Set the current master key before rotation", None)}
       ELSE /\ pc' = "r_verify"
            /\ loc' = [loc EXCEPT !.old_key = env]
            /\ console' = console \cup {Out("Starting key rotation for: <config_path>", None),
                                        Out("Verifying current master key...", None)}
    /\ UNCHANGED <<env, files, backups, clock, cmd, batch, runs, pre, written, start, backed, callVars>>

\* variant of R_Verify: the result of the verification is not looked at
R_VerifyIgnored ==
    /\ pc = "r_verify"
    /\ pc' = "r_backup"
    /\ loc' = loc
    /\ console' = console \cup {Out("Current master key verified", None), Out("Creating backup...", None)}
    /\ UNCHANGED <<env, files, backups, clock, cmd, batch, runs, pre, written, start, backed, callVars>>

\* if not verify_config_decryption(config_path, old_key): sys.exit(1)
R_Verify ==
    /\ pc = "r_verify"
    /\ IF ~verify_config_decryption(files[loc.path][1], loc.old_key[1], env)
       THEN /\ Exit("verify")
            /\ console' = console \cup
                 {Out("Error: Current master key cannot decrypt the configuration", None),
                  Out("Please ensure PROXMOX_MCP_MASTER_KEY is set correctly", None)}
       ELSE /\ pc' = "r_backup"
            /\ loc' = loc
            /\ console' = console \cup {Out("Current master key verified", None),
                                        Out("Creating backup...", None)}
    /\ UNCHANGED <<env, files, backups, clock, cmd, batch, runs, pre, written, start, backed, callVars>>

\* variant of R_BackupOpen: the backup name carries no timestamp of its own
R_BackupOpenFixedName ==
    /\ pc = "r_backup"
    /\ \/ /\ backups' = [backups EXCEPT ![loc.path][1] = Some(EmptyFile)]
          /\ backed' = backed \cup {loc.path}
          /\ pc' = "r_backup_copy"
          /\ loc' = [loc EXCEPT !.ts = 1]
          /\ console' = console
       \/ /\ Exit("backup")
          /\ console' = console \cup {RotationError(<<"Failed to create backup: ", "OSError">>)}
          /\ UNCHANGED <<backups, backed>>
    /\ UNCHANGED <<env, files, clock, cmd, batch, runs, pre, start, written, callVars>>

\* create_backup: the timestamp is taken and shutil.copy2 opens the
\* destination (creating or truncating it), or fails to
R_BackupOpen ==
    /\ pc = "r_backup"
    /\ \/ /\ backups' = [backups EXCEPT ![loc.path][clock] = Some(EmptyFile)]
          /\ backed' = backed \cup {loc.path}
          /\ pc' = "r_backup_copy"
          /\ loc' = [loc EXCEPT !.ts = clock]
          /\ console' = console
       \/ /\ Exit("backup")
          /\ console' = console \cup {RotationError(<<"Failed to create backup: ", "OSError">>)}
          /\ UNCHANGED <<backups, backed>>
    /\ UNCHANGED <<env, files, clock, cmd, batch, runs, pre, start, written, callVars>>

\* variant of R_BackupCopy: a failed copy is not raised
R_BackupCopyIgnoringFailure ==
    /\ pc = "r_backup_copy"
    /\ \/ backups' = [backups EXCEPT ![loc.path][loc.ts] = files[loc.path]]
       \/ backups' = [backups EXCEPT ![loc.path][loc.ts] = Some(PartialFile)]
    /\ pc' = "r_newkey"
    /\ loc' = loc
    /\ console' = console \cup {Out("Backup created: <backup_path>", None)}
    /\ UNCHANGED <<env, files, clock, cmd, batch, runs, pre, start, written, backed, callVars>>

\* create_backup: shutil.copy2 copies the bytes, or fails part-way
R_BackupCopy ==
    /\ pc = "r_backup_copy"
    /\ \/ /\ backups' = [backups EXCEPT ![loc.path][loc.ts] = files[loc.path]]
          /\ pc' = "r_newkey"
          /\ loc' = loc
          /\ console' = console \cup {Out("Backup created: <backup_path>", None)}
       \/ /\ backups' = [backups EXCEPT ![loc.path][loc.ts] = Some(PartialFile)]
          /\ Exit("backup")
          /\ console' = console \cup {RotationError(<<"Failed to create backup: ", "OSError">>)}
    /\ UNCHANGED <<env, files, clock, cmd, batch, runs, pre, written, start, backed, callVars>>

\* if new_key is None: new_key = TokenEncryption.generate_master_key()
R_NewKey ==
    /\ pc = "r_newkey"
    /\ IF loc.new_key = None
       THEN /\ \E i \in 1..MaxKey : loc' = [loc EXCEPT !.new_key = Some(generate_master_key(i))]
            /\ console' = console \cup {Out("Generating new master key...", None),
                                        Out("New master key generated", None)}
       ELSE /\ loc' = loc
            /\ console' = console \cup {Out("Using provided new master key...", None)}
    /\ pc' = "r_rotate"
    /\ UNCHANGED <<env, files, backups, clock, cmd, batch, runs, pre, written, start, backed, callVars>>

\* variant of RotateInMemory: the token is re-encrypted by old_encryptor
RotateInMemoryOldKey(old_key, new_key, envv, file, salt, iv) ==
    LET old_encryptor == TokenEncryption(old_key, envv, 1)
        new_encryptor == TokenEncryption(new_key, envv, 1)
        config_data == JsonLoad(file)
    IN  IF ~old_encryptor.ok \/ ~new_encryptor.ok THEN Err(<<"encryptors">>)
        ELSE IF ~config_data.ok THEN Err(<<"load">>)
        ELSE IF ~HasEncryptedToken(config_data.val[1])
             THEN Ok([config_data |-> config_data.val[1], rotated_fields |-> <<>>])
        ELSE LET decrypted_token == decrypt_token(old_encryptor.val[1], TokenValue(config_data.val[1]).s)
             IN  IF ~decrypted_token.ok THEN Err(<<"decrypt">>)
                 ELSE LET t == encrypt_token(old_encryptor.val[1], decrypted_token.val[1], salt, iv)
                      IN  IF ~t.ok THEN Err(<<"encrypt">>)
                          ELSE Ok([config_data |-> SetTokenValue(config_data.val[1], t.val[1]),
                                   rotated_fields |-> <<"auth.token_value">>])

\* rotate_master_key, from building the encryptors to the rotated document in
\* memory: the new config_data and rotated_fields, or the step that raised
RotateInMemory(old_key, new_key, envv, file, salt, iv) ==
    LET old_encryptor == TokenEncryption(old_key, envv, 1)
        new_encryptor == TokenEncryption(new_key, envv, 1)
        config_data == JsonLoad(file)
    IN  IF ~old_encryptor.ok \/ ~new_encryptor.ok THEN Err(<<"encryptors">>)
        ELSE IF ~config_data.ok THEN Err(<<"load">>)
        ELSE IF ~HasEncryptedToken(config_data.val[1])
             THEN Ok([config_data |-> config_data.val[1], rotated_fields |-> <<>>])
        ELSE LET decrypted_token == decrypt_token(old_encryptor.val[1], TokenValue(config_data.val[1]).s)
             IN  IF ~decrypted_token.ok THEN Err(<<"decrypt">>)
                 ELSE LET t == encrypt_token(new_encryptor.val[1], decrypted_token.val[1], salt, iv)
                      IN  IF ~t.ok THEN Err(<<"encrypt">>)
                          ELSE Ok([config_data |-> SetTokenValue(config_data.val[1], t.val[1]),
                                   rotated_fields |-> <<"auth.token_value">>])

\* the message of the exception that ended RotateInMemory: that of the
\* encryptor that could not be built, else that of the step that raised
RotateFailureText(old_key, new_key, envv, file, salt, iv) ==
    LET old_encryptor == TokenEncryption(old_key, envv, 1)
        new_encryptor == TokenEncryption(new_key, envv, 1)
        config_data == JsonLoad(file)
    IN  IF ~old_encryptor.ok THEN old_encryptor.err
        ELSE IF ~new_encryptor.ok THEN new_encryptor.err
        ELSE IF ~config_data.ok THEN config_data.err
        ELSE LET decrypted_token == decrypt_token(old_encryptor.val[1], TokenValue(config_data.val[1]).s)
             IN  IF ~decrypted_token.ok THEN decrypted_token.err
                 ELSE encrypt_token(new_encryptor.val[1], decrypted_token.val[1], salt, iv).err

\* what the two TokenEncryption(...) constructions of rotate_master_key print:
\* new_encryptor is built only once old_encryptor is
RotateInitOutput(old_key, new_key, envv) ==
    init_output(old_key, envv, 1)
    \cup (IF TokenEncryption(old_key, envv, 1).ok THEN init_output(new_key, envv, 1) ELSE {})

\* create the encryptors, load the configuration, rotate token_value
R_Rotate ==
    /\ pc = "r_rotate"
    /\ \E salt \in RotSalts, iv \in RotIvs :
         LET r == RotateInMemory(loc.old_key, loc.new_key, env, files[loc.path][1], salt, iv)
         IN  IF r.ok
             THEN /\ pc' = "r_open"
                  /\ loc' = [loc EXCEPT !.config_data = Some(r.val[1].config_data),
                                        !.rotated_fields = r.val[1].rotated_fields]
                  /\ console' = console \cup RotateInitOutput(loc.old_key, loc.new_key, env)
             ELSE /\ Exit(r.err[1])
                  /\ console' = console \cup RotateInitOutput(loc.old_key, loc.new_key, env)
                       \cup {RotationError(RotateFailureText(loc.old_key, loc.new_key, env,
                                                             files[loc.path][1], salt, iv))}
    /\ UNCHANGED <<env, files, backups, clock, cmd, batch, runs, pre, written, start, backed, callVars>>

\* variant of R_Open: the file is truncated even when open() is said to fail
R_OpenTruncatingOnFailure ==
    /\ pc = "r_open"
    /\ files' = [files EXCEPT ![loc.path] = Some(EmptyFile)]
    /\ written' = written \cup {loc.path}
    /\ \/ /\ pc' = "r_dump"
          /\ loc' = loc
          /\ console' = console
       \/ /\ Exit("open")
          /\ console' = console \cup {RotationError(<<"OSError">>)}
    /\ UNCHANGED <<env, backups, clock, cmd, batch, runs, pre, start, backed, callVars>>

\* open(config_path, 'w'): the file is truncated, or cannot be opened
R_Open ==
    /\ pc = "r_open"
    /\ \/ /\ files' = [files EXCEPT ![loc.path] = Some(EmptyFile)]
          /\ written' = written \cup {loc.path}
          /\ pc' = "r_dump"
          /\ loc' = loc
          /\ console' = console
       \/ /\ Exit("open")
          /\ console' = console \cup {RotationError(<<"OSError">>)}
          /\ UNCHANGED <<files, written>>
    /\ UNCHANGED <<env, backups, clock, cmd, batch, runs, pre, start, backed, callVars>>

\* json.dump(config_data, f, indent=2) and the close of the file: part of
\* the text reaches the disk, all of it does, or a write fails
R_Dump ==
    /\ pc = "r_dump"
    /\ \/ /\ files[loc.path] = Some(EmptyFile)
          /\ files' = [files EXCEPT ![loc.path] = Some(PartialFile)]
          /\ UNCHANGED <<pc, loc, console>>
       \/ /\ files' = [files EXCEPT ![loc.path] = Some(JsonDump2(loc.config_data[1]))]
          /\ pc' = "r_done"
          /\ loc' = loc
          /\ console' = console
       \/ /\ Exit("write")
          /\ console' = console \cup {RotationError(<<"OSError">>)}
          /\ files' = files
    /\ UNCHANGED <<env, backups, clock, cmd, batch, runs, pre, written, start, backed, callVars>>

\* the closing messages; the call returns to main() or to the bulk loop
R_Done ==
    /\ pc = "r_done"
    /\ IF loc.ret = "single"
       THEN /\ pc' = "done"
            /\ batch' = batch
            /\ console' = console \cup RotationReport(loc.rotated_fields, loc.new_key)
       ELSE /\ pc' = "a_loop"
            /\ batch' = [batch EXCEPT !.successful_rotations = Append(@, loc.path), !.i = @ + 1]
            /\ console' = console \cup RotationReport(loc.rotated_fields, loc.new_key)
                            \cup {Out("Rotated successfully", None)}
    /\ UNCHANGED <<env, files, backups, clock, cmd, loc, runs, pre, written, start, backed, callVars>>

\* ----------------------------------------------------- rotate_master_key_all
\* main(): --rotate-key-all, or a caller passing new_key
StartRotateAll ==
    /\ pc = "idle"
    /\ runs < MaxRuns
    /\ \E d \in {"dir", "missing"}, nk \in NewKeyArgs :
        /\ cmd' = [NoCmd EXCEPT !.name = "rotate_all", !.dir = d]
        /\ batch' = [NoBatch EXCEPT !.new_key = nk]
    /\ pc' = "a_scan"
    /\ runs' = runs + 1
    /\ loc' = NoLoc
    /\ pre' = [files |-> files, backups |-> backups]
    /\ start' = files
    /\ written' = {}
    /\ backed' = {}
    /\ console' = {}
    /\ UNCHANGED <<env, files, backups, clock, callVars>>

\* the files Path(directory).rglob("*.json") yields, less the example files
CandidateFiles == {p \in Paths : files[p] # None /\ EndsWithJson(p) /\ ~StartsWithConfigExample(p)}

\* the orders in which rglob can yield a set of paths
Orderings(S) == {q \in [1..Cardinality(S) -> S] : \A i, j \in 1..Cardinality(S) : q[i] = q[j] => i = j}

\* directory checks, file discovery, one new key for all files
A_Scan ==
    /\ pc = "a_scan"
    /\ IF cmd.dir # "dir" \/ CandidateFiles = {}
       THEN /\ Exit(IF cmd.dir # "dir" THEN "dir" ELSE "nofiles")
            /\ batch' = batch
            /\ console' = console \cup {IF cmd.dir # "dir"
                                        THEN Out("Error: Directory not found: <directory>", None)
                                        ELSE Out("No configuration files found in: <directory>", None)}
       ELSE /\ \E q \in Orderings(CandidateFiles), i \in 1..MaxKey :
                batch' = [batch EXCEPT !.config_files = q, !.i = 1,
                            !.new_key = IF batch.new_key = None THEN Some(generate_master_key(i)) ELSE batch.new_key]
            /\ pc' = "a_loop"
            /\ loc' = loc
            /\ console' = console
                 \cup (IF batch.new_key = None
                       THEN {Out("Generating new master key for all configurations...", None),
                             Out("New master key generated", None)}
                       ELSE {})
                 \cup {Out("Starting bulk key rotation in: <directory>", None),
                       Out("Found <n> configuration files", None)}
    /\ UNCHANGED <<env, files, backups, clock, cmd, runs, pre, written, start, backed, callVars>>

\* one iteration of the loop up to the call of rotate_master_key, or the
\* end of the loop
A_Loop ==
    /\ pc = "a_loop"
    /\ IF batch.i > Len(batch.config_files)
       THEN pc' = "a_summary" /\ UNCHANGED <<batch, loc, pre, console>>
       ELSE LET config_file == batch.config_files[batch.i]
                config_data == JsonLoad(files[config_file][1])
            IN  IF ~config_data.ok
                THEN /\ batch' = [batch EXCEPT !.failed_rotations = Append(@, <<config_file, config_data.err>>),
                                               !.i = @ + 1]
                     /\ console' = console \cup {Out("Processing: <basename>", None),
                                                 OutErr("Failed: ", config_data.err)}
                     /\ UNCHANGED <<pc, loc, pre>>
                ELSE IF ~HasEncryptedToken(config_data.val[1])
                THEN /\ batch' = [batch EXCEPT !.i = @ + 1]
                     /\ console' = console \cup {Out("Processing: <basename>", None),
                                                 Out("Skipping (no encrypted content)", None)}
                     /\ UNCHANGED <<pc, loc, pre>>
                ELSE /\ EnterRotate(config_file, batch.new_key, "all")
                     /\ batch' = batch
                     /\ console' = console \cup {Out("Processing: <basename>", None)}
    /\ UNCHANGED <<env, files, backups, clock, cmd, runs, written, start, backed, callVars>>

\* the bulk rotation summary
A_Summary ==
    /\ pc = "a_summary"
    /\ pc' = "done"
    /\ console' = console \cup BulkSummary(batch.successful_rotations, batch.failed_rotations, batch.new_key)
    /\ UNCHANGED <<env, files, backups, clock, cmd, loc, batch, runs, pre, written, start, backed, callVars>>

\* ------------------------------------------------------------- the operator
\* the key the closing messages tell the operator to export
PrintedNewKey == IF cmd.name = "rotate" THEN loc.new_key ELSE batch.new_key

\* after a completed command the operator exports the new key, as told, and
\* is back at the prompt
ExportNewKey ==
    /\ pc = "done"
    /\ runs < MaxRuns
    /\ env' = PrintedNewKey
    /\ pc' = "idle"
    /\ cmd' = NoCmd
    /\ loc' = NoLoc
    /\ batch' = NoBatch
    /\ pre' = [files |-> files, backups |-> backups]
    /\ start' = files
    /\ written' = {}
    /\ backed' = {}
    /\ console' = {}
    /\ UNCHANGED <<files, backups, clock, runs, callVars>>

\* one command, from any initial disk and environment
Next ==
    \/ StartRotate \/ R_Exists \/ R_Env \/ R_Verify \/ R_BackupOpen \/ R_BackupCopy
    \/ R_NewKey \/ R_Rotate \/ R_Open \/ R_Dump \/ R_Done
    \/ StartRotateAll \/ A_Scan \/ A_Loop \/ A_Summary
    \/ Kill

Spec == Init /\ [][Next]_vars

\* a deployment with one configuration file, its token sealed under the key
\* in the environment by encrypt_token or by an older release
InitChain ==
    /\ \E k \in Keys :
         /\ env = Some(k)
         /\ files \in {[p \in Paths |-> IF p = Config1 THEN c1 ELSE None] :
                         c1 \in {Some(JsonFile(BaseDoc(Config1, Some(JStr(StoredToken(Config1, k)))), "compact")),
                                  Some(JsonFile(BaseDoc(Config1, Some(JStr(LegacyToken(k, Secret(Config1), 1)))), "compact"))}}
    /\ pre = [files |-> files, backups |-> NoBackups]
    /\ start = files
    /\ InitRot
    /\ InitLib

\* commands run one after the other, the operator exporting each new key
NextChain == Next \/ ExportNewKey \/ Tick

SpecChain == InitChain /\ [][NextChain]_vars

\* ------------------------------------------------ generate-key and encrypt
\* the token_value entries of a configuration that is to be encrypted
CliTokenEntries ==
    {None, Some(JNum(7)), Some(JNull),
     Some(JStr(Secret(Config1))), Some(JStr(<<Ch("e"), Ch("n"), Ch("c"), Ch("x"), Colon>>)),
     Some(JStr(EncPrefix \o <<Ch("x")>>)), Some(JStr(ThreePartToken)),
     Some(JStr(LegacyToken(generate_master_key(1), Secret(Config1), 1)))}
    \cup {Some(JStr(StoredToken(Config1, k))) : k \in Keys}

CliConfig1Contents ==
    {None, Some(TextFile), Some(JsonFile(Doc(None, JNum(1)), "compact"))}
    \cup {Some(JsonFile(BaseDoc(Config1, t), "compact")) : t \in CliTokenEntries}

\* the operator's shell before a generate-key or encrypt command
InitCli ==
    /\ env \in EnvValues
    /\ files \in {[p \in CliPaths |-> IF p = Config1 THEN c1 ELSE None] : c1 \in CliConfig1Contents}
    /\ pre = [files |-> files, backups |-> NoBackups]
    /\ start = files
    /\ InitRot
    /\ InitLib

\* what these commands leave alone
cliFrame == <<backups, clock, loc, batch, pre, start, written, backed, encCall, lastCall, migCall, errCall, sensCall>>

\* main(): --generate-key; generate_master_key() up to the first input()
StartGenerateKey ==
    /\ pc = "idle"
    /\ runs < MaxRuns
    /\ \E i \in 1..MaxKey : cli' = [NoCli EXCEPT !.key = Some(generate_master_key(i))]
    /\ cmd' = [NoCmd EXCEPT !.name = "generate_key"]
    /\ console' = console \cup {Out("Generated new master key.", None),
                                Out("SECURITY WARNING:", None),
                                Out("- This key will be displayed ONCE below", None),
                                Out("- Copy it immediately and store it securely", None),
                                Out("- Anyone with this key can decrypt your tokens", None),
                                Out("- Consider clearing your terminal history after copying", None)}
    /\ pc' = "k_prompt"
    /\ runs' = runs + 1
    /\ UNCHANGED <<env, files, cliFrame>>

\* input("Press ENTER to display the key, or Ctrl+C to cancel: ") and the
\* prints up to the second input()
K_Prompt ==
    /\ pc = "k_prompt"
    /\ \/ /\ console' = console \cup {Out("Master Key (copy this now):", None),
                                      Out("PROXMOX_MCP_MASTER_KEY=", cli.key),
                                      Out("To use this key:", None),
                                      Out("1. Set the environment variable in your shell:", None),
                                      Out("export PROXMOX_MCP_MASTER_KEY=", cli.key),
                                      Out("2. Or add it to your .env file", None),
                                      Out("3. Store this key securely - you'll need it to decrypt your config!", None),
                                      Out("Security reminder:", None),
                                      Out("- Clear your terminal history to remove the key:", None),
                                      Out("history -c && history -w", None),
                                      Out("- Or close this terminal session", None),
                                      Out("WARNING: Losing this key means losing access to encrypted tokens!", None)}
          /\ pc' = "k_confirm"
          /\ cli' = cli
       \/ /\ console' = console \cup {Out("Key generation cancelled.", None)}
          /\ pc' = "exit"
          /\ cli' = [cli EXCEPT !.failed_at = "cancelled"]
    /\ UNCHANGED <<env, files, cmd, runs, cliFrame>>

\* input("Press ENTER after you have safely stored the key...")
K_Confirm ==
    /\ pc = "k_confirm"
    /\ \/ /\ console' = console \cup {Out("Key generation complete.", None)}
          /\ pc' = "done"
          /\ cli' = cli
       \/ /\ console' = console \cup {Out("Key generation cancelled.", None)}
          /\ pc' = "exit"
          /\ cli' = [cli EXCEPT !.failed_at = "cancelled"]
    /\ UNCHANGED <<env, files, cmd, runs, cliFrame>>

\* main(): encrypt_config(args.config_file, args.output)
StartEncrypt ==
    /\ pc = "idle"
    /\ runs < MaxRuns
    /\ \E p \in Paths, out \in {None, Some(Config2)} :
         /\ cmd' = [NoCmd EXCEPT !.name = "encrypt", !.path = p]
         /\ cli' = [NoCli EXCEPT !.config_path = p, !.output_arg = out]
    /\ pc' = "e_exists"
    /\ runs' = runs + 1
    /\ UNCHANGED <<env, files, console, cliFrame>>

\* the exit of encrypt_config after an exception of encrypt_config_file
EncryptFailed(stage, err) ==
    /\ pc' = "exit"
    /\ cli' = [cli EXCEPT !.failed_at = stage]
    /\ console' = console \cup {OutErr("Error encrypting configuration: ",
                                       <<"Failed to encrypt configuration file: ">> \o err)}

\* encrypt_config: os.path.exists(config_path)
E_Exists ==
    /\ pc = "e_exists"
    /\ IF files[cli.config_path] = None
       THEN /\ pc' = "exit"
            /\ cli' = [cli EXCEPT !.failed_at = "exists"]
            /\ console' = console \cup {Out("Error: Configuration file not found: <config_path>", None)}
       ELSE /\ pc' = "e_encrypt"
            /\ UNCHANGED <<cli, console>>
    /\ UNCHANGED <<env, files, cmd, runs, cliFrame>>

\* encrypt_config_file: the output path, json.load, TokenEncryption() and the
\* encryption of the value in memory
E_Encrypt ==
    /\ pc = "e_encrypt"
    /\ \E gen \in 1..MaxKey, salt \in Salts, iv \in Ivs :
         LET output_path == IF cli.output_arg = None THEN default_output(cli.config_path)
                            ELSE cli.output_arg[1]
             config_data == JsonLoad(files[cli.config_path][1])
             encryptor == TokenEncryption(None, env, gen)
         IN  IF ~config_data.ok
             THEN EncryptFailed("load", config_data.err)
             ELSE IF ~encryptor.ok
             THEN /\ pc' = "exit"
                  /\ cli' = [cli EXCEPT !.failed_at = "encryptor", !.src = config_data.val]
                  /\ console' = console \cup init_output(None, env, gen)
                                  \cup {OutErr("Error encrypting configuration: ",
                                               <<"Failed to encrypt configuration file: ">> \o encryptor.err)}
             ELSE LET r == encrypt_config_data(config_data.val[1], encryptor.val[1], salt, iv)
                  IN  /\ pc' = IF r.ok THEN "e_open" ELSE "exit"
                      /\ cli' = [cli EXCEPT !.output_path = output_path, !.src = config_data.val,
                                            !.inst = encryptor.val,
                                            !.config_data = r.val,
                                            !.failed_at = IF r.ok THEN "" ELSE "encrypt"]
                      /\ console' = console \cup init_output(None, env, gen)
                                      \cup (IF r.ok THEN {}
                                            ELSE {OutErr("Error encrypting configuration: ",
                                                         <<"Failed to encrypt configuration file: ">> \o r.err)})
    /\ UNCHANGED <<env, files, cmd, runs, cliFrame>>

\* encrypt_config_file: open(output_path, "w") truncates the file, or fails
E_Open ==
    /\ pc = "e_open"
    /\ \/ /\ files' = [files EXCEPT ![cli.output_path] = Some(EmptyFile)]
          /\ pc' = "e_dump"
          /\ UNCHANGED <<cli, console>>
       \/ /\ EncryptFailed("open", <<"OSError">>)
          /\ files' = files
    /\ UNCHANGED <<env, cmd, runs, cliFrame>>

\* encrypt_config_file: json.dump(config_data, f, indent=4) and the close of
\* the file: part of the text reaches the disk, all of it does, or a write
\* fails
E_Dump ==
    /\ pc = "e_dump"
    /\ \/ /\ files[cli.output_path] = Some(EmptyFile)
          /\ files' = [files EXCEPT ![cli.output_path] = Some(PartialFile)]
          /\ UNCHANGED <<pc, cli, console>>
       \/ /\ files' = [files EXCEPT ![cli.output_path] = Some(JsonDump4(cli.config_data[1]))]
          /\ pc' = "e_done"
          /\ UNCHANGED <<cli, console>>
       \/ /\ EncryptFailed("write", <<"OSError">>)
          /\ files' = files
    /\ UNCHANGED <<env, cmd, runs, cliFrame>>

\* the closing messages of encrypt_config_file and encrypt_config
E_Done ==
    /\ pc = "e_done"
    /\ console' = console \cup {Out("Encrypted configuration saved to: <output_path>", None),
                                Out("Make sure to set PROXMOX_MCP_MASTER_KEY environment variable", None),
                                Out("Configuration encrypted successfully!", None),
                                Out("Original: <config_path>", None),
                                Out("Encrypted: <encrypted_path>", None),
                                Out("Next steps:", None),
                                Out("1. Verify the encrypted config works:", None),
                                Out("PROXMOX_MCP_CONFIG=<encrypted_path> python -m proxmox_mcp.server --test", None),
                                Out("2. Update your environment to use the encrypted config", None),
                                Out("3. Securely delete the original plain-text config if desired", None)}
    /\ pc' = "done"
    /\ UNCHANGED <<env, files, cmd, cli, runs, cliFrame>>

\* the server is started on the encrypted configuration, in the same
\* environment: load_config reads the file and calls _decrypt_config_tokens
LoadEncrypted ==
    /\ pc = "done"
    /\ cmd.name = "encrypt"
    /\ \E gen \in 1..MaxKey :
         LET config_data == JsonLoad(files[cli.output_path][1]).val[1]
         IN  /\ cli' = [cli EXCEPT !.loaded = decrypt_config_tokens(config_data, env, gen),
                                   !.loader_key = IF HasEncryptedToken(config_data)
                                                  THEN TokenEncryption(None, env, gen).val
                                                  ELSE None]
             /\ console' = console \cup decrypt_config_output(config_data, env, gen)
    /\ pc' = "loaded"
    /\ UNCHANGED <<env, files, cmd, runs, cliFrame>>

NextCli ==
    \/ StartGenerateKey \/ K_Prompt \/ K_Confirm
    \/ StartEncrypt \/ E_Exists \/ E_Encrypt \/ E_Open \/ E_Dump \/ E_Done
    \/ LoadEncrypted

SpecCli == InitCli /\ [][NextCli]_vars

\* ---------------------------------------------------------- library session
\* A program using TokenEncryption and the loader directly: it may encrypt or
\* migrate a string, and then makes one more call (the library keeps no state
\* between calls besides the instance's master key).
SeqsUpTo(S, n) == UNION {[1..m -> S] : m \in 0..n}

\* input strings: nothing, "enc" or "enc:" followed by up to MaxLen characters
Strings == {pfx \o t : pfx \in {<<>>, EncPrefix, SubSeq(EncPrefix, 1, 3)},
                       t \in SeqsUpTo({Colon, Ch("x")}, MaxLen)}

\* the master_key argument of TokenEncryption(...)
KeyArgs == {None, Some(EmptyStr), Some(BadKey)} \cup {Some(k) : k \in Keys}

\* tokens written by older releases
LegacyTokens == {LegacyToken(k, <<Ch("x")>>, 1) : k \in Keys}

\* one-part tokens whose cipher was derived with a random salt: no release
\* wrote them, a damaged or hand-made configuration can hold them
SaltedOnePartTokens ==
    {EncPrefix \o B64Encode(FernetEncrypt(create_cipher(k, salt).val[1], StrEncode(<<Ch("x")>>), 1)) :
        k \in Keys, salt \in Salts}

\* documents handed to _decrypt_config_tokens
LibDocs ==
    {Doc(None, JNum(1))}
    \cup {BaseDoc(Config1, t) : t \in {None, Some(JNum(7)), Some(JNull)}}
    \cup {BaseDoc(Config1, Some(JStr(s))) : s \in Strings \cup LegacyTokens}
    \cup {BaseDoc(Config1, Some(JStr(StoredToken(Config1, k)))) : k \in Keys}

InitLibSession ==
    /\ env \in EnvValues
    /\ files = [p \in Paths |-> None]
    /\ pre = [files |-> files, backups |-> NoBackups]
    /\ start = files
    /\ InitRot
    /\ InitLib

\* no call of the session has been made
SessionStart ==
    ~encCall.done /\ ~migCall.done /\ ~errCall.done /\ ~sensCall.done /\ lastCall.op = "none"

\* encryptor = TokenEncryption(master_key); encryptor.encrypt_token(s)
EncryptCall ==
    /\ SessionStart
    /\ \E k \in KeyArgs, gen \in 1..MaxKey, s \in Strings, salt \in Salts, iv \in Ivs :
         LET inst == TokenEncryption(k, env, gen)
         IN  /\ encCall' = [done |-> TRUE, key |-> k, inst |-> inst.val, s |-> s,
                            res |-> IF inst.ok THEN encrypt_token(inst.val[1], s, salt, iv) ELSE inst]
             /\ console' = console \cup init_output(k, env, gen)
    /\ lastCall' = NoCall
    /\ UNCHANGED <<env, rotVars, sensCall, migCall, errCall, cli>>

\* encryptor = TokenEncryption(master_key); encryptor.migrate_plain_token(s)
MigrateCall ==
    /\ SessionStart
    /\ \E k \in KeyArgs, gen \in 1..MaxKey, s \in Strings \cup LegacyTokens, salt \in Salts, iv \in Ivs :
         LET inst == TokenEncryption(k, env, gen)
         IN  /\ migCall' = [done |-> TRUE, key |-> k, inst |-> inst.val, s |-> s,
                            res |-> IF inst.ok THEN migrate_plain_token(inst.val[1], s, salt, iv) ELSE inst]
             /\ console' = console \cup init_output(k, env, gen)
    /\ UNCHANGED <<env, rotVars, sensCall, encCall, lastCall, errCall, cli>>

\* the strings a decrypt call is given: the token the encrypt_token or
\* migrate_plain_token call of the session returned, or else any input
\* string or stored token
DecryptArgs ==
    IF encCall.res.ok THEN {encCall.res.val[1]}
    ELSE IF migCall.res.ok THEN {migCall.res.val[1]}
    ELSE Strings \cup LegacyTokens \cup SaltedOnePartTokens

\* TokenEncryption(master_key).decrypt_token(arg) on a new instance
DecryptCall ==
    /\ lastCall.op = "none"
    /\ ~errCall.done
    /\ ~sensCall.done
    /\ \E k \in KeyArgs, gen \in 1..MaxKey, arg \in DecryptArgs :
         LET inst == TokenEncryption(k, env, gen)
         IN  /\ lastCall' = [op |-> "decrypt", key |-> k, inst |-> inst.val, arg |-> <<arg>>,
                             res |-> IF inst.ok THEN decrypt_token(inst.val[1], arg) ELSE inst,
                             fromEnc |-> encCall.res.ok /\ arg = encCall.res.val[1]]
             /\ console' = console \cup init_output(k, env, gen)
    /\ UNCHANGED <<env, rotVars, sensCall, encCall, migCall, errCall, cli>>

\* encryptor.decrypt_token(arg) on the instance that encrypted
DecryptSame ==
    /\ lastCall.op = "none"
    /\ encCall.res.ok
    /\ \E arg \in DecryptArgs :
         lastCall' = [op |-> "decrypt_same", key |-> encCall.key, inst |-> encCall.inst, arg |-> <<arg>>,
                      res |-> decrypt_token(encCall.inst[1], arg),
                      fromEnc |-> arg = encCall.res.val[1]]
    /\ UNCHANGED <<env, rotVars, sensCall, encCall, migCall, errCall, cli, console>>

\* encryptor.decrypt_token(migrated) on the instance that migrated
DecryptMigrated ==
    /\ lastCall.op = "none"
    /\ migCall.res.ok
    /\ lastCall' = [op |-> "decrypt_migrated", key |-> migCall.key, inst |-> migCall.inst,
                    arg |-> migCall.res.val,
                    res |-> decrypt_token(migCall.inst[1], migCall.res.val[1]),
                    fromEnc |-> FALSE]
    /\ UNCHANGED <<env, rotVars, sensCall, encCall, migCall, errCall, cli, console>>

\* encryptor.migrate_plain_token(migrated) on the instance that migrated
MigrateAgain ==
    /\ lastCall.op = "none"
    /\ migCall.res.ok
    /\ \E salt \in Salts, iv \in Ivs :
         lastCall' = [op |-> "migrate", key |-> migCall.key, inst |-> migCall.inst,
                      arg |-> migCall.res.val,
                      res |-> migrate_plain_token(migCall.inst[1], migCall.res.val[1], salt, iv),
                      fromEnc |-> FALSE]
    /\ UNCHANGED <<env, rotVars, sensCall, encCall, migCall, errCall, cli, console>>

\* _decrypt_config_tokens(doc), the one call of a session that loads a
\* configuration document
DecryptConfigCall ==
    /\ SessionStart
    /\ \E doc \in LibDocs, gen \in 1..MaxKey :
         /\ lastCall' = [op |-> "decrypt_config", key |-> None, inst |-> None, arg |-> <<doc>>,
                         res |-> decrypt_config_tokens(doc, env, gen), fromEnc |-> FALSE]
         /\ console' = console \cup decrypt_config_output(doc, env, gen)
    /\ UNCHANGED <<env, rotVars, sensCall, encCall, migCall, errCall, cli>>

\* the texts of the exceptions _handle_decryption_error is handed: those the
\* cipher layer raises, their unwrapped causes, and an unrelated one
ErrorTexts ==
    {<<"Failed to decrypt token: ", "Invalid encrypted token format">>,
     <<"Failed to decrypt token: ", "">>,
     <<"Failed to decrypt token: ", "Incorrect padding">>,
     <<"Failed to decrypt token: ", "Invalid master key: ", "Incorrect padding">>,
     <<"Invalid master key: ", "Incorrect padding">>,
     <<"Invalid encrypted token format">>,
     <<"Invalid base64-encoded string: number of data characters cannot be 1 more than a multiple of 4">>,
     <<"Incorrect padding">>,
     <<"">>,
     <<"Connection timeout">>}

\* the second value of a field: a plain secret, a bare prefix or a stored token
OtherValues == {Secret(Config2), EncPrefix} \cup LegacyTokens

\* _handle_decryption_error(field, v, e) for two values v1 and v2 of the
\* same field and the same exception e
HandleErrorCall ==
    /\ SessionStart
    /\ \E field \in {"auth.token_value", "auth.password"}, msg \in ErrorTexts,
          v1 \in Strings \cup LegacyTokens, v2 \in OtherValues :
         errCall' = [done |-> TRUE, field |-> field, v1 |-> v1, v2 |-> v2, msg |-> msg,
                     r1 |-> handle_decryption_error(field, v1, msg),
                     r2 |-> handle_decryption_error(field, v2, msg)]
    /\ UNCHANGED <<env, rotVars, sensCall, encCall, migCall, lastCall, cli, console>>

\* the encryptor argument of the convenience functions: none, or an
\* instance built with a generated key
EncryptorArgs == {None} \cup {Some(k) : k \in Keys}

\* encrypt_sensitive_value(s, encryptor)
EncryptSensitiveCall ==
    /\ SessionStart
    /\ \E e \in EncryptorArgs, gen \in 1..MaxKey, s \in Strings, salt \in Salts, iv \in Ivs :
         /\ sensCall' = [NoSensCall EXCEPT
                            !.done = TRUE, !.encryptor = e, !.s = s,
                            !.inst = IF e = None THEN TokenEncryption(None, env, gen).val ELSE e,
                            !.res = encrypt_sensitive_value(s, e, env, gen, salt, iv)]
         /\ console' = console \cup (IF e = None THEN init_output(None, env, gen) ELSE {})
    /\ UNCHANGED <<env, rotVars, encCall, migCall, lastCall, errCall, cli>>

\* decrypt_sensitive_value(encrypted, encryptor) on what
\* encrypt_sensitive_value returned
DecryptSensitiveCall ==
    /\ sensCall.done
    /\ sensCall.res.ok
    /\ ~sensCall.dec
    /\ \E e \in EncryptorArgs, gen \in 1..MaxKey :
         /\ sensCall' = [sensCall EXCEPT
                            !.dec = TRUE, !.dec_encryptor = e,
                            !.dec_inst = IF e = None THEN TokenEncryption(None, env, gen).val ELSE e,
                            !.dec_res = decrypt_sensitive_value(sensCall.res.val[1], e, env, gen)]
         /\ console' = console \cup (IF e = None THEN init_output(None, env, gen) ELSE {})
    /\ UNCHANGED <<env, rotVars, encCall, migCall, lastCall, errCall, cli>>

NextLib ==
    \/ EncryptCall \/ MigrateCall \/ DecryptCall \/ DecryptSame \/ DecryptMigrated
    \/ MigrateAgain \/ DecryptConfigCall \/ HandleErrorCall
    \/ EncryptSensitiveCall \/ DecryptSensitiveCall

SpecLib == InitLibSession /\ [][NextLib]_vars

\* ==================================================================== claims
\* the key a TokenEncryption built with master key k ends up with, if any
InstanceKey(k) == TokenEncryption(k, env, 1)

\* a rotate_master_key call has begun (and may have ended)
InRotate == loc.path # <<>>

PreFile == pre.files[loc.path]

PreDoc == PreFile[1].doc[1]

\* the call began on a JSON file whose auth.token_value is an enc: string
PreEncrypted == PreFile # None /\ PreFile[1].kind = "json" /\ HasEncryptedToken(PreDoc)

\* nothing on disk differs from when the call began
NoFilesystemChange == files = pre.files /\ backups = pre.backups

\* C1: a token returned by encrypt_token decrypts to the encrypted string,
\* on the instance that encrypted it and on any other instance that has the
\* same master key
C1_RoundTrip ==
    (/\ lastCall.op \in {"decrypt", "decrypt_same"}
     /\ lastCall.fromEnc
     /\ lastCall.inst # None
     /\ lastCall.inst = encCall.inst)
    => lastCall.res = Ok(encCall.s)

\* C1 witness: another instance, built with the same explicit key, has
\* decrypted the token of a string that itself starts with "enc:" and has a ':'
C1_Witness ==
    /\ lastCall.op = "decrypt"
    /\ lastCall.fromEnc
    /\ lastCall.key \in {Some(k) : k \in Keys}
    /\ lastCall.key = encCall.key
    /\ encCall.s = EncPrefix \o <<Colon, Ch("x")>>
    /\ lastCall.res.ok

\* C2: when the environment key cannot decrypt the target's encrypted token,
\* rotate_master_key stops at the verification with sys.exit and the disk is
\* as it was: no backup, no rewrite
C2_RotationAbort ==
    (/\ InRotate
     /\ Truthy(env)
     /\ PreEncrypted
     /\ ~(InstanceKey(env).ok /\ decrypt_token(InstanceKey(env).val[1], TokenValue(PreDoc).s).ok))
    => /\ pc \in {"r_exists", "r_env", "r_verify", "exit", "killed"}
       /\ pc = "exit" => loc.failed_at = "verify"
       /\ NoFilesystemChange
       /\ loc.path \notin written \cup backed

\* C2 witness: the call ended at the verification, the token being sealed
\* under another valid key than the one in the environment
C2_Witness ==
    /\ pc = "exit"
    /\ loc.failed_at = "verify"
    /\ env \in {Some(k) : k \in Keys}
    /\ PreEncrypted
    /\ \E k \in Keys : Some(k) # env /\ TokenValue(PreDoc).s = StoredToken(loc.path, k)

\* C3: when rotate_master_key has succeeded on a file whose token was
\* encrypted, the stored token decrypts under the new key to the secret the
\* file protected from the start, also after earlier rotations
C3_RotatedTokenDecrypts ==
    (pc \in {"r_done", "done"} /\ InRotate /\ PreEncrypted)
    => LET f == files[loc.path][1]
       IN  /\ f.kind = "json"
           /\ HasEncryptedToken(f.doc[1])
           /\ InstanceKey(loc.new_key).ok
           /\ decrypt_token(InstanceKey(loc.new_key).val[1], TokenValue(f.doc[1]).s) = Ok(Secret(loc.path))

\* C3 witness: a second rotation of config1.json has succeeded, from the key
\* the first rotation moved it to, to a different key
C3_Witness ==
    /\ runs = 2
    /\ pc = "done"
    /\ cmd.name = "rotate"
    /\ loc.path = Config1
    /\ PreEncrypted
    /\ loc.new_key # env
    /\ PreFile[1].fmt = "indent2"
    /\ \E t \in Times : /\ backups[Config1][t] # None
                        /\ backups[Config1][t][1].fmt = "compact"

\* C4: during and after rotate_master_key, also when the process was killed,
\* a config file that was opened for writing or whose content differs from
\* its pre-rotation content has a backup <path>.backup.<ts> holding the
\* pre-rotation content
C4_BackupBeforeWrite ==
    (InRotate /\ (files[loc.path] # PreFile \/ loc.path \in written))
    => /\ loc.ts \in Times
       /\ backups[loc.path][loc.ts] = PreFile

\* C4 witness: the process was killed while the file was partially written
C4_Witness ==
    /\ pc = "killed"
    /\ InRotate
    /\ files[loc.path] = Some(PartialFile)
    /\ backups[loc.path][loc.ts] = PreFile

\* C5: the document a successful rotate_master_key wrote back equals the
\* document it read in every entry but auth.token_value, and equals it
\* entirely when no token was rotated
C5_OnlyTokenChanges ==
    (pc \in {"r_done", "done"} /\ InRotate)
    => LET old == PreDoc
           new == files[loc.path][1].doc[1]
       IN  /\ files[loc.path][1].kind = "json"
           /\ new.name = old.name
           /\ (old.auth = None) = (new.auth = None)
           /\ old.auth # None =>
                /\ new.auth[1].user = old.auth[1].user
                /\ (old.auth[1].token_value = None) = (new.auth[1].token_value = None)
           /\ ~HasEncryptedToken(old) => new = old

\* C5 witness: a rotation wrote a document with a new token value
C5_Witness ==
    /\ pc = "r_done"
    /\ PreEncrypted
    /\ TokenValue(files[loc.path][1].doc[1]) # TokenValue(PreDoc)
    /\ PreDoc.auth[1].user = JStr(<<Ch("u")>>)

\* the range of a sequence
Range(q) == {q[i] : i \in DOMAIN q}

\* C6: in rotate_master_key_all, a rotate_master_key call that failed leaves
\* the batch running: the process has not exited and the file is in
\* failed_rotations with its error
C6_FailureDoesNotAbortBatch ==
    (cmd.name = "rotate_all" /\ InRotate /\ loc.failed_at # "")
    => /\ pc # "exit"
       /\ \E i \in DOMAIN batch.failed_rotations : batch.failed_rotations[i][1] = loc.path

\* the files of the directory that are neither example files nor free of an
\* enc: token when the command began
EncryptedConfigs ==
    {p \in {Config1, Config2} :
        /\ cmd.dir = "dir"
        /\ start[p] # None
        /\ start[p][1].kind = "json"
        /\ HasEncryptedToken(start[p][1].doc[1])}

\* p has a complete backup taken by the current command
HasBackup(p) == p \in backed /\ \E t \in Times : backups[p][t] = start[p]

C8_NoEnvKeyFailsFast ==
    (InRotate /\ (env = None \/ env = Some(EmptyStr)))
    => /\ pc \in {"r_exists", "r_env", "exit", "killed"}
       /\ pc = "exit" => loc.failed_at \in {"exists", "env"}
       /\ loc.old_key = None
       /\ NoFilesystemChange
       /\ loc.path \notin written \cup backed

\* C8 witness: the call ended at the environment check on an empty value
C8_Witness ==
    /\ pc = "exit"
    /\ loc.failed_at = "env"
    /\ env = Some(EmptyStr)
    /\ files[loc.path] # None

\* C9: decrypt_token returns a string without the "enc:" prefix as it is, and
\* _decrypt_config_tokens returns the document as it is when auth or
\* token_value is absent, or token_value is no string or has no "enc:" prefix
C9_PassThrough ==
    /\ (/\ lastCall.op \in {"decrypt", "decrypt_same"}
        /\ lastCall.inst # None
        /\ ~(Len(lastCall.arg[1]) >= 4 /\ SubSeq(lastCall.arg[1], 1, 4) = <<Ch("e"), Ch("n"), Ch("c"), Ch(":")>>))
       => lastCall.res = Ok(lastCall.arg[1])
    /\ lastCall.op = "decrypt_config"
       => LET doc == lastCall.arg[1]
          IN  (\/ doc.auth = None
               \/ doc.auth[1].token_value = None
               \/ doc.auth[1].token_value[1].t # "str"
               \/ ~(/\ Len(doc.auth[1].token_value[1].s) >= 4
                    /\ SubSeq(doc.auth[1].token_value[1].s, 1, 4) = <<Ch("e"), Ch("n"), Ch("c"), Ch(":")>>))
              => lastCall.res = Ok(doc)

\* C9 witness: decrypt_token was given a string that starts with "enc" but
\* not with "enc:" and returned it
C9_Witness ==
    /\ lastCall.op = "decrypt"
    /\ lastCall.arg = << <<Ch("e"), Ch("n"), Ch("c"), Ch("x"), Colon>> >>
    /\ lastCall.res.ok

\* C11: migrate_plain_token applied to what migrate_plain_token returned
\* returns it unchanged, whatever salt a second encryption would draw
C11_MigrateIdempotent ==
    lastCall.op = "migrate"
    => /\ lastCall.arg = migCall.res.val
       /\ lastCall.res = Ok(migCall.res.val[1])

\* C11 witness: a string without the prefix was migrated (encrypted), and the
\* result was migrated again
C11_Witness ==
    /\ lastCall.op = "migrate"
    /\ migCall.s = <<Ch("x"), Colon>>
    /\ migCall.res.val[1] # migCall.s
    /\ lastCall.res.ok

\* C12 as claimed: for every string p, what migrate_plain_token(p) returns
\* starts with "enc:" and decrypt_token maps it back to p, on the instance
\* that migrated and on any other with the same master key
C12_MigrateDecryptsBack ==
    migCall.res.ok
    => /\ SubSeq(migCall.res.val[1], 1, 4) = <<Ch("e"), Ch("n"), Ch("c"), Ch(":")>>
       /\ (lastCall.op \in {"decrypt", "decrypt_migrated"} /\ lastCall.inst = migCall.inst)
            => lastCall.res = Ok(migCall.s)

\* C12 as amended: the value returned starts with "enc:"; when p does not
\* start with "enc:" decrypt_token maps it back to p under the same master
\* key, and when p does, p itself is returned
C12_PlainMigrateDecryptsBack ==
    migCall.res.ok
    => /\ SubSeq(migCall.res.val[1], 1, 4) = <<Ch("e"), Ch("n"), Ch("c"), Ch(":")>>
       /\ IF Len(migCall.s) >= 4 /\ SubSeq(migCall.s, 1, 4) = <<Ch("e"), Ch("n"), Ch("c"), Ch(":")>>
          THEN migCall.res.val[1] = migCall.s
          ELSE (lastCall.op \in {"decrypt", "decrypt_migrated"} /\ lastCall.inst = migCall.inst)
                 => lastCall.res = Ok(migCall.s)

\* C12 witness: another instance with the same explicit key decrypted the
\* migrated form of "encx:", which has no "enc:" prefix
C12_Witness ==
    /\ migCall.s = <<Ch("e"), Ch("n"), Ch("c"), Ch("x"), Colon>>
    /\ lastCall.op = "decrypt"
    /\ lastCall.key = migCall.key
    /\ lastCall.key \in {Some(k) : k \in Keys}
    /\ lastCall.res = Ok(migCall.s)

\* the bytes a one-part token "enc:<b64>" carries, when it is one
IsOnePartFernet(t) ==
    /\ Len(t) = 5
    /\ SubSeq(t, 1, 4) = <<Ch("e"), Ch("n"), Ch("c"), Ch(":")>>
    /\ t[5].kind = "b64"
    /\ t[5].bytes[1].tag = "fernet"

\* C13: decrypt_token on a one-part token returns its plaintext when the
\* token was sealed with the key derived from the instance's master key and
\* the fixed salt, and fails when it was sealed with a key derived with any
\* other salt or master key
C13_LegacyDecrypts ==
    (/\ lastCall.op = "decrypt"
     /\ lastCall.inst # None
     /\ IsOnePartFernet(lastCall.arg[1]))
    => LET b == lastCall.arg[1][5].bytes[1]
       IN  IF b.dk = <<Rand(32, CHOOSE i \in 1..MaxKey : generate_master_key(i) = lastCall.inst[1]), StaticSalt>>
           THEN lastCall.res = Ok(b.txt)
           ELSE ~lastCall.res.ok

\* C13 witness: a legacy token was decrypted by an instance built with the
\* key that sealed it
C13_Witness ==
    /\ lastCall.op = "decrypt"
    /\ lastCall.key \in {Some(k) : k \in Keys}
    /\ lastCall.arg[1] \in LegacyTokens
    /\ lastCall.res = Ok(<<Ch("x")>>)

\* number of ':'-delimited parts after the prefix of an "enc:" string
NumParts(t) == 1 + Cardinality({i \in 5..Len(t) : t[i] = Colon})

\* the exception classes of the cipher, authentication, base64 and wrong-key
\* failures of decrypt_token on strings with one or two parts
CipherFailureClasses ==
    {ExceptionClass(decrypt_token(c[1], c[2]).err) :
        c \in {d \in Keys \X (Strings \cup LegacyTokens \cup SaltedOnePartTokens) :
                  StartsWithEnc(d[2]) /\ NumParts(d[2]) \in {1, 2} /\ ~decrypt_token(d[1], d[2]).ok}}

\* C14 as claimed: on an "enc:" value with a part count other than 1 and 2,
\* decrypt_token fails with an error of a kind that none of the cipher,
\* authentication, base64 or wrong-key failures has
C14_DistinctErrorKind ==
    (/\ lastCall.op = "decrypt"
     /\ lastCall.inst # None
     /\ Len(lastCall.arg[1]) >= 4
     /\ SubSeq(lastCall.arg[1], 1, 4) = <<Ch("e"), Ch("n"), Ch("c"), Ch(":")>>
     /\ NumParts(lastCall.arg[1]) \notin {1, 2})
    => /\ ~lastCall.res.ok
       /\ ExceptionClass(lastCall.res.err) \notin CipherFailureClasses

\* C14 as amended: on an "enc:" value with 3 or more parts decrypt_token fails
\* with the message "Failed to decrypt token: Invalid encrypted token format";
\* a failure on 1 or 2 parts has the same prefix and another text, and a
\* value never has 0 parts
C14_FormatErrorMessage ==
    (/\ lastCall.op = "decrypt"
     /\ lastCall.inst # None
     /\ Len(lastCall.arg[1]) >= 4
     /\ SubSeq(lastCall.arg[1], 1, 4) = <<Ch("e"), Ch("n"), Ch("c"), Ch(":")>>)
    => /\ NumParts(lastCall.arg[1]) >= 3
            => lastCall.res = Err(<<"Failed to decrypt token: ", "Invalid encrypted token format">>)
       /\ (NumParts(lastCall.arg[1]) <= 2 /\ ~lastCall.res.ok)
            => /\ lastCall.res.err[1] = "Failed to decrypt token: "
               /\ lastCall.res.err # <<"Failed to decrypt token: ", "Invalid encrypted token format">>

\* C14 witness: decrypt_token was given "enc:::" (three empty parts)
C14_Witness ==
    /\ lastCall.op = "decrypt"
    /\ lastCall.inst # None
    /\ lastCall.arg[1] = <<Ch("e"), Ch("n"), Ch("c"), Colon, Colon, Colon>>
    /\ ~lastCall.res.ok

\* the document's token is the new-format token sealed under key k
SealedUnder(doc, k) == doc = BaseDoc(Config1, Some(JStr(StoredToken(Config1, k))))

\* C15: decrypt_token on a token encrypt_token returned, called on an
\* instance with another master key, fails; _decrypt_config_tokens on a
\* document whose token was sealed under another key than the one in the
\* environment raises the key-mismatch error for auth.token_value (with no
\* key in the environment it does so unless the generated key is the sealing
\* key)
C15_WrongKeyFails ==
    /\ (/\ lastCall.op = "decrypt"
        /\ lastCall.fromEnc
        /\ lastCall.inst # None
        /\ lastCall.inst # encCall.inst)
       => ~lastCall.res.ok
    /\ \A k \in Keys :
         (lastCall.op = "decrypt_config" /\ SealedUnder(lastCall.arg[1], k))
         => IF Truthy(env)
            THEN env # Some(k) => lastCall.res = Err(<<"auth.token_value", "Decryption key mismatch">>)
            ELSE \/ lastCall.res = Err(<<"auth.token_value", "Decryption key mismatch">>)
                 \/ lastCall.res = Ok(BaseDoc(Config1, Some(JStr(Secret(Config1)))))

\* C15 witness: the document was sealed under one generated key, the
\* environment holds another, and the key-mismatch error was raised
C15_Witness ==
    /\ lastCall.op = "decrypt_config"
    /\ \E k \in Keys : SealedUnder(lastCall.arg[1], k) /\ env \in {Some(j) : j \in Keys \ {k}}
    /\ ~lastCall.res.ok

\* C16: for one field and one original error, two values that fall into the
\* same category get the same message from _handle_decryption_error, and a
\* message _decrypt_config_tokens raises is one of three fixed texts for
\* auth.token_value
C16_MessageIndependentOfValue ==
    /\ (errCall.done /\ errCall.r1.err[2] = errCall.r2.err[2])
       => errCall.r1.err = errCall.r2.err
    /\ errCall.done => (~errCall.r1.ok /\ ~errCall.r2.ok /\ errCall.r1.err[1] = errCall.field)
    /\ (lastCall.op = "decrypt_config" /\ ~lastCall.res.ok)
       => lastCall.res.err \in {<<"auth.token_value", c>> :
                                  c \in {"Invalid encryption format", "Decryption key mismatch",
                                         "Token data is corrupted"}}

\* C16 witness: two different "enc:" values of the field got the key-mismatch
\* message
C16_Witness ==
    /\ errCall.done
    /\ errCall.v1 = <<Ch("e"), Ch("n"), Ch("c"), Colon, Ch("x")>>
    /\ errCall.v2 = EncPrefix
    /\ errCall.r1.err[2] = "Decryption key mismatch"
    /\ errCall.r2.err[2] = "Decryption key mismatch"

\* the master_key arguments of the TokenEncryption(...) constructions of the
\* session
Constructions ==
    (IF encCall.done THEN {encCall} ELSE {})
    \cup (IF migCall.done THEN {[done |-> TRUE, key |-> migCall.key, inst |-> migCall.inst,
                                 s |-> migCall.s, res |-> migCall.res]} ELSE {})
    \cup (IF lastCall.op = "decrypt"
          THEN {[done |-> TRUE, key |-> lastCall.key, inst |-> lastCall.inst, s |-> <<>>, res |-> lastCall.res]}
          ELSE {})
    \cup (IF sensCall.done /\ sensCall.encryptor = None
          THEN {[done |-> TRUE, key |-> None, inst |-> sensCall.inst, s |-> sensCall.s, res |-> sensCall.res]}
          ELSE {})
    \cup (IF sensCall.dec /\ sensCall.dec_encryptor = None
          THEN {[done |-> TRUE, key |-> None, inst |-> sensCall.dec_inst, s |-> <<>>, res |-> sensCall.dec_res]}
          ELSE {})

\* an instance was built from neither an argument nor an environment value
EphemeralPath ==
    /\ ~(env # <<>> /\ env[1] # <<>>)
    /\ \/ \E c \in Constructions : ~(c.key # <<>> /\ c.key[1] # <<>>)
       \/ lastCall.op = "decrypt_config" /\ HasEncryptedToken(lastCall.arg[1])

Warned == \E item \in console : item.text = "WARNING: No master key found in environment."

\* C17: when an instance of the session was built from neither an argument
\* nor an environment value, the warning and the guidance were printed and
\* no printed line carries a generated key (or any value at all)
C17_EphemeralKeyNotPrinted ==
    EphemeralPath
    => /\ Warned
       /\ \E item \in console : item.text = "1. Run: python -m proxmox_mcp.utils.encrypt_config --generate-key"
       /\ \A item \in console : item.val \notin {Some(generate_master_key(i)) : i \in 1..MaxKey}
       /\ \A item \in console : item.val = None

\* C17 witness: an instance built without any key encrypted a string and
\* decrypted the token
C17_Witness ==
    /\ env = None
    /\ encCall.done
    /\ encCall.key = None
    /\ lastCall.op = "decrypt_same"
    /\ lastCall.res = Ok(encCall.s)
    /\ Warned

C18_KeyFileNotPrinted ==
    (cmd.name = "generate_key" /\ pc = "done")
    => /\ files[KeyFile] = Some([kind |-> "key", doc |-> cli.key, fmt |-> "0600"])
       /\ \A item \in console : item.val # cli.key
       /\ \E item \in console : item.text = "export PROXMOX_MCP_MASTER_KEY=$(cat ~/.proxmox_mcp_key)"

\* the value is one encrypt_config_file is to encrypt
IsPlainString(doc) ==
    /\ doc.auth # None
    /\ doc.auth[1].token_value # None
    /\ doc.auth[1].token_value[1].t = "str"
    /\ ~(/\ Len(doc.auth[1].token_value[1].s) >= 4
         /\ SubSeq(doc.auth[1].token_value[1].s, 1, 4) = <<Ch("e"), Ch("n"), Ch("c"), Ch(":")>>)

\* the value is a string that starts with "enc:"
IsEncString(doc) ==
    /\ doc.auth # None
    /\ doc.auth[1].token_value # None
    /\ doc.auth[1].token_value[1].t = "str"
    /\ ~IsPlainString(doc)

\* what encrypt_config_file wrote, against the document it read: the value
\* is replaced by a token of it exactly when it is a string without the
\* prefix, everything else is as it was
OutputAsSpecified ==
    LET old == cli.src[1]
        out == files[cli.output_path][1]
        new == out.doc[1]
    IN  /\ out.kind = "json"
        /\ new.name = old.name
        /\ (old.auth = None) = (new.auth = None)
        /\ old.auth # None =>
             /\ new.auth[1].user = old.auth[1].user
             /\ (old.auth[1].token_value = None) = (new.auth[1].token_value = None)
        /\ IF IsPlainString(old)
           THEN /\ new.auth[1].token_value[1].t = "str"
                /\ SubSeq(new.auth[1].token_value[1].s, 1, 4) = <<Ch("e"), Ch("n"), Ch("c"), Ch(":")>>
                /\ decrypt_token(cli.inst[1], new.auth[1].token_value[1].s) = Ok(old.auth[1].token_value[1].s)
           ELSE new = old

\* C20 as claimed: encrypt_config_file wrote the document as specified, and
\* _decrypt_config_tokens on what it wrote, under the same master key,
\* returns the document it read
C20_EncryptFileRoundTrip ==
    (cmd.name = "encrypt" /\ pc \in {"e_done", "done", "loaded"})
    => /\ OutputAsSpecified
       /\ (pc = "loaded" /\ cli.loader_key \in {None, cli.inst}) => cli.loaded = Ok(cli.src[1])

\* C20 as amended: encrypt_config_file wrote the document as specified, and
\* when the value it read was not an "enc:" string, _decrypt_config_tokens on
\* what it wrote, under the same master key, returns the document it read
C20_PlainEncryptFileRoundTrip ==
    (cmd.name = "encrypt" /\ pc \in {"e_done", "done", "loaded"})
    => /\ OutputAsSpecified
       /\ (/\ pc = "loaded"
           /\ cli.loader_key \in {None, cli.inst}
           /\ ~IsEncString(cli.src[1]))
          => cli.loaded = Ok(cli.src[1])

\* C20 witness: the value "encx:" was encrypted into the default output file
\* and the loader, with the same environment key, gave the document back
C20_Witness ==
    /\ cmd.name = "encrypt"
    /\ pc = "loaded"
    /\ env \in {Some(k) : k \in Keys}
    /\ cli.output_path = <<"config1", ".encrypted", ".json">>
    /\ cli.src[1].auth # None
    /\ cli.src[1].auth[1].token_value = Some(JStr(<<Ch("e"), Ch("n"), Ch("c"), Ch("x"), Colon>>))
    /\ files[cli.output_path][1].doc[1] # cli.src[1]
    /\ cli.loaded = Ok(cli.src[1])

\* C21: with no encryptor argument in either call, decrypt_sensitive_value
\* returns the string encrypt_sensitive_value was given
C21_SensitiveRoundTrip ==
    (/\ sensCall.dec
     /\ sensCall.encryptor = None
     /\ sensCall.dec_encryptor = None)
    => sensCall.dec_res = Ok(sensCall.s)

\* the string is "enc:<salt_b64>:<ciphertext_b64>": two parts after the
\* prefix, the first the base64 text of 16 random bytes, the second the
\* base64 text of a Fernet token
IsNewFormat(t) ==
    /\ Len(t) >= 4
    /\ SubSeq(t, 1, 4) = <<Ch("e"), Ch("n"), Ch("c"), Ch(":")>>
    /\ LET parts == Split(SubSeq(t, 5, Len(t)))
       IN  /\ Len(parts) = 2
           /\ Len(parts[1]) = 1 /\ parts[1][1].kind = "b64"
           /\ parts[1][1].bytes[1].tag = "rand" /\ parts[1][1].bytes[1].n = 16
           /\ Len(parts[2]) = 1 /\ parts[2][1].kind = "b64"
           /\ parts[2][1].bytes[1].tag = "fernet"

\* the last rotate_master_key call has returned
RotationReturned == loc.path # <<>> /\ pc \in {"r_done", "done", "a_loop", "a_summary"}

\* the file the call began on held a string auth.token_value starting with "enc:"
PreHadEncString ==
    /\ PreFile # None
    /\ PreFile[1].kind = "json"
    /\ PreDoc.auth # None
    /\ PreDoc.auth[1].token_value # None
    /\ PreDoc.auth[1].token_value[1].t = "str"
    /\ Len(PreDoc.auth[1].token_value[1].s) >= 4
    /\ SubSeq(PreDoc.auth[1].token_value[1].s, 1, 4) = <<Ch("e"), Ch("n"), Ch("c"), Ch(":")>>

C23_AtomicRewrite ==
    (InRotate /\ PreFile # None /\ PreFile[1].kind = "json")
    => \/ files[loc.path] = PreFile
       \/ /\ loc.config_data # None
          /\ files[loc.path] = Some(JsonFile(loc.config_data[1], "indent2"))

\* the steps of a rotate_master_key call are taken in the order Verify,
\* Backup, Decrypt and Encrypt, Write: a backup file of the path exists only
\* when the verification passed, the rotated document exists only when the
\* backup is complete, and the file is opened for writing only when the
\* rotated document exists
RotationStepOrder ==
    InRotate
    => /\ loc.path \in backed
            => /\ PreFile # None
               /\ loc.old_key # None
               /\ verify_config_decryption(PreFile[1], loc.old_key[1], env)
       /\ loc.config_data # None
            => /\ loc.path \in backed
               /\ backups[loc.path][loc.ts] = PreFile
       /\ loc.path \in written => loc.config_data # None

\* rotate_master_key has ended with sys.exit(1)
RotationFailed == InRotate /\ pc = "exit"

\* C24 as claimed: the steps are taken in order, and a rotate_master_key call
\* that fails leaves no backup file of its making: every abort is before Backup
C24_NoAbortAfterBackup ==
    /\ RotationStepOrder
    /\ RotationFailed => (loc.path \notin backed /\ backups = pre.backups)

\* C24 as amended: the steps are taken in order; a failure on the existence
\* check, the environment key or the verification leaves no backup; a later
\* failure (the backup copy, the construction of the encryptors, the opening
\* or the writing of the file) leaves the backup file behind, and the
\* configuration file as it was unless the failure is in the write
C24_AbortsAndOrder ==
    /\ RotationStepOrder
    /\ RotationFailed
       => /\ loc.failed_at \in {"exists", "env", "verify", "backup", "encryptors", "open", "write"}
          /\ loc.failed_at \in {"exists", "env", "verify"}
               => (loc.path \notin backed /\ backups = pre.backups)
          /\ loc.failed_at \in {"encryptors", "open", "write"}
               => (loc.path \in backed /\ backups[loc.path][loc.ts] = PreFile)
          /\ loc.failed_at # "write" => files = pre.files

\* C24 witness: the new key handed to rotate_master_key is not valid base64
\* and the call failed after the backup was made
C24_Witness ==
    /\ RotationFailed
    /\ loc.failed_at = "encryptors"
    /\ loc.new_key = Some(<<Ch("x")>>)
    /\ backups[loc.path][loc.ts] = PreFile
    /\ files = pre.files

\* the needles each message fragment contains once it is lower-cased
NeedlesIn(fragment) ==
    IF fragment = "Failed to decrypt token: " THEN {"decrypt"}
    ELSE IF fragment = "Invalid encrypted token format" THEN {"invalid encrypted token format", "invalid"}
    ELSE IF fragment = "Invalid master key: " THEN {"invalid master key", "invalid"}
    ELSE IF fragment = "Invalid base64-encoded string: number of data characters cannot be 1 more than a multiple of 4"
         THEN {"base64", "invalid"}
    ELSE {}

Contains(msg, needle) == \E i \in 1..Len(msg) : needle \in NeedlesIn(msg[i])

\* the message the claim's rule order gives for a value and an error text
ExpectedMessage(field, v, msg) ==
    IF ~(Len(v) >= 4 /\ SubSeq(v, 1, 4) = <<Ch("e"), Ch("n"), Ch("c"), Ch(":")>>)
    THEN <<field, "contains invalid encrypted token format">>
    ELSE IF Contains(msg, "invalid encrypted token format")
    THEN <<field, "Invalid encryption format">>
    ELSE IF Contains(msg, "invalid master key") \/ Contains(msg, "decrypt")
    THEN <<field, "Decryption key mismatch">>
    ELSE IF Contains(msg, "base64") \/ Contains(msg, "invalid")
    THEN <<field, "Token data is corrupted">>
    ELSE <<field, "generic">> \o msg

\* C25: _handle_decryption_error always raises, the message names the field,
\* and its category is that of the first rule that matches, in the order
\* prefix, "invalid encrypted token format", "invalid master key" or
\* "decrypt", "base64" or "invalid", generic, the text being compared in
\* lower case
C25_ClassificationOrder ==
    errCall.done
    => /\ ~errCall.r1.ok /\ ~errCall.r2.ok
       /\ errCall.r1.err[1] = errCall.field /\ errCall.r2.err[1] = errCall.field
       /\ errCall.r1.err = ExpectedMessage(errCall.field, errCall.v1, errCall.msg)
       /\ errCall.r2.err = ExpectedMessage(errCall.field, errCall.v2, errCall.msg)

\* C25 witness: for the error "Invalid encrypted token format" (which also
\* contains "invalid"), a value without the prefix got the bad-format
\* message and a value with the prefix the invalid-encryption-format one
C25_Witness ==
    /\ errCall.done
    /\ errCall.msg = <<"Invalid encrypted token format">>
    /\ errCall.v1 = <<Ch("x")>>
    /\ errCall.v2 = <<Ch("e"), Ch("n"), Ch("c"), Ch(":")>>
    /\ errCall.r1.err[2] = "contains invalid encrypted token format"
    /\ errCall.r2.err[2] = "Invalid encryption format"

\* verify_config_decryption(path, old_key) has just returned True / False
\* inside rotate_master_key
VerifiedTrue == InRotate /\ pc = "r_backup"

VerifiedFalse == InRotate /\ pc = "exit" /\ loc.failed_at = "verify"

\* the file has no string auth.token_value that starts with "enc:"
NoEncString == ~PreHadEncString

\* the file's token decrypts under the key
TokenDecryptsUnder(k) ==
    /\ PreHadEncString
    /\ B64Decode(k).ok
    /\ decrypt_token(k, PreDoc.auth[1].token_value[1].s).ok

\* C26 as claimed, for files that hold a JSON document: the result is true
\* exactly when the file has no "enc:" string token or the token decrypts
\* under the key, whatever the key is
C26_VerifyIff ==
    /\ (VerifiedTrue /\ PreFile[1].kind = "json")
       => (NoEncString \/ TokenDecryptsUnder(loc.old_key[1]))
    /\ (VerifiedFalse /\ PreFile[1].kind = "json")
       => ~(NoEncString \/ TokenDecryptsUnder(loc.old_key[1]))

\* C26 as amended: the result is true exactly when the key is decodable
\* base64, the file holds a JSON document, and the document has no "enc:"
\* string token or its token decrypts under the key
C26_VerifyIffUsable ==
    /\ VerifiedTrue
       => /\ B64Decode(loc.old_key[1]).ok
          /\ PreFile[1].kind = "json"
          /\ (NoEncString \/ TokenDecryptsUnder(loc.old_key[1]))
    /\ VerifiedFalse
       => ~(/\ B64Decode(loc.old_key[1]).ok
            /\ PreFile[1].kind = "json"
            /\ (NoEncString \/ TokenDecryptsUnder(loc.old_key[1])))

\* C26 witness: a JSON file with a plain-text token and a key that is not
\* decodable base64: the verification returned False
C26_Witness ==
    /\ VerifiedFalse
    /\ loc.old_key = Some(<<Ch("x")>>)
    /\ PreFile = Some(JsonFile(BaseDoc(Config1, Some(JStr(Secret(Config1)))), "compact"))

\* C27: no rotation operation prints the old or the new master key: what a
\* rotation command wrote to the console carries no key
RotationCommand == cmd.name \in {"rotate", "rotate_all"}

C27_NoKeyPrinted ==
    RotationCommand => \A item \in console : item.val = None

\* C28: a rotate_master_key call that fails at any step other than the final
\* write leaves the config file as it was when the call began, and the file
\* is opened for writing only once the rotated document exists in memory
C28_FailureLeavesFile ==
    /\ (RotationFailed /\ loc.failed_at # "write") => files[loc.path] = PreFile
    /\ (InRotate /\ loc.path \in written) => loc.config_data # None

\* a rotation that got as far as the backup and failed on an invalid new key
C28_Witness ==
    /\ RotationFailed
    /\ loc.failed_at = "encryptors"
    /\ loc.path \in backed
    /\ PreEncrypted
    /\ files[loc.path] = PreFile

\* the backup of the running rotation is complete
BackupTaken ==
    InRotate /\ loc.path \in backed /\ pc \in {"r_newkey", "r_rotate", "r_open", "r_dump", "r_done", "done"}

\* C29 as claimed: create_backup never overwrites an existing backup: every
\* backup of the path that existed when the rotation began is still as it was
C29_NeverOverwrites ==
    InRotate => \A t \in Times :
        pre.backups[loc.path][t] # None => backups[loc.path][t] = pre.backups[loc.path][t]

\* C29 as amended: the backup name has the resolution of a second.  A rotation
\* leaves the backups of the path taken in other seconds as they were, and its
\* own backup, named after the current second, holds the file as it was when
\* the rotation began, replacing a backup of the same path and second
C29_OverwritesWithinSecondOnly ==
    /\ InRotate => \A t \in Times :
           (t # clock /\ pre.backups[loc.path][t] # None)
           => backups[loc.path][t] = pre.backups[loc.path][t]
    /\ BackupTaken => (loc.ts = clock /\ backups[loc.path][clock] = PreFile)

\* a second rotation of the path in a later second: both backups are on disk
C29_WitnessLaterSecond ==
    /\ BackupTaken
    /\ \E t \in Times :
         /\ t # clock
         /\ pre.backups[loc.path][t] # None
         /\ backups[loc.path][t] # backups[loc.path][clock]

\* a second rotation of the path in the same second: the first backup has been
\* replaced
C29_Witness ==
    /\ BackupTaken
    /\ pre.backups[loc.path][clock] # None
    /\ pre.backups[loc.path][clock] # PreFile
    /\ backups[loc.path][clock] = PreFile

\* a _decrypt_config_tokens call that raised
DecryptConfigFailed == lastCall.op = "decrypt_config" /\ ~lastCall.res.ok

\* C30: whatever makes _decrypt_config_tokens fail on an enc: token_value
\* with the real TokenEncryption, the reported category is the invalid
\* encryption format or the key mismatch; the bad-format, corrupted-data and
\* generic categories are not reached
C30_TwoCategoriesOnly ==
    DecryptConfigFailed
    => /\ lastCall.res.err[1] = "auth.token_value"
       /\ lastCall.res.err[2] \in {"Invalid encryption format", "Decryption key mismatch"}

\* the token was sealed under another key than the one in the environment
C30_Witness ==
    /\ DecryptConfigFailed
    /\ \E k \in Keys :
         /\ env # None
         /\ env[1] \in Keys \ {k}
         /\ lastCall.arg = <<BaseDoc(Config1, Some(JStr(StoredToken(Config1, k))))>>
    /\ lastCall.res.err[2] = "Decryption key mismatch"

\* the environment key is not base64: TokenEncryption() itself raises
C30_WitnessInvalidKey ==
    /\ DecryptConfigFailed
    /\ env = Some(BadKey)
    /\ lastCall.res.err[2] = "Decryption key mismatch"

\* a token of three parts
C30_WitnessPartCount ==
    /\ DecryptConfigFailed
    /\ env # None
    /\ env[1] \in Keys
    /\ lastCall.res.err[2] = "Invalid encryption format"

\* a token whose ciphertext is not base64
C30_WitnessBase64 ==
    /\ DecryptConfigFailed
    /\ env # None
    /\ env[1] \in Keys
    /\ lastCall.arg = <<BaseDoc(Config1, Some(JStr(EncPrefix \o <<Ch("x")>>)))>>
    /\ lastCall.res.err[2] = "Decryption key mismatch"
====
